---- MODULE Spec2Model ----
(***************************************************************************)
(* Verification model of the Pintos file system of CS130-Project:         *)
(* the sector cache (filesys/cache.c), the inode layer (filesys/inode.c), *)
(* the directory layer (filesys/directory.c) and the file system entry    *)
(* points (filesys/filesys.c, userprog/syscall.c).                        *)
(*                                                                         *)
(* SpecCache  : the cache with its client, the read-ahead consumer and    *)
(*              the flusher, interleaved at semaphore granularity.        *)
(* SpecRing   : the read-ahead buffer with two producers, its lock and    *)
(*              its condition variables.                                  *)
(* SpecFlush  : a writing client and the flusher under a fair scheduler.  *)
(***************************************************************************)
EXTENDS Integers, Sequences, FiniteSets, TLC

(***************************************************************************)
(* Sizes.  The program's sizes (64 cache lines, 64 read-ahead slots) are  *)
(* scaled down; they are bounds of the model.                             *)
(***************************************************************************)
CACHE_SIZE == 2
READ_AHEAD_BUFFER_SIZE == 2
\* block_size (fs_device) of the device under the cache in SpecCache.
DeviceSectors == 3
\* timer_ticks () advances up to this tick.
MaxTicks == 2
\* Sector contents written by the cache client in SpecCache are 1..MaxVal.
MaxVal == 2
\* The client makes at most this many cache_read / cache_write calls.
MaxCalls == 3

NoVal == 0 - 1
NoLine == 0 - 1

VARIABLES
    cache,              \* cache[i]: struct cache_block, i \in 0..CACHE_SIZE-1
    disk,               \* the block device: sector -> contents
    ticks,              \* timer_ticks ()
    read_head_buffer,   \* the pending read-ahead requests; Len = read_head_buffer_n
    read_head_lock,     \* holder of read_head_lock: "free" or "ra"
    task,               \* per task: position in cache.c and its locals
    panic,              \* the kernel has faulted (NULL dereference)
    calls,              \* number of client calls made so far
    lastWritten,        \* ghost: data of the last completed cache_write per sector
    lastRead,           \* ghost: what the last completed cache_read returned
    flushSnap,          \* ghost: sectors whose last write completed before the
                        \* running flush was requested and was not superseded
    free_map,           \* the free map: the sectors in use
    inodes,             \* the struct inode objects by id
    open_inodes,        \* the list open_inodes: ids, front first
    hung,               \* a call is in a loop that never ends
    hf,                 \* the files of the inode-layer client (SpecInode)
    res,                \* ghost: what the last call did and returned
    ops,                \* number of calls made so far
    starved,            \* ghost: some free_map_allocate has failed
    threads             \* the processes: cur_dir, files, fd (SpecFs)

\* The variables of the cache tasks of SpecCache.
taskVars == <<read_head_lock, task, calls, lastWritten, lastRead, flushSnap>>
\* The variables above the cache: the inode layer and its clients.
inodeVars == <<free_map, inodes, open_inodes, hung>>
clientVars == <<hf, res, ops, starved>>
upperVars == <<inodeVars, clientVars, threads>>

vars == <<cache, disk, ticks, read_head_buffer, read_head_lock, task, panic, calls,
          lastWritten, lastRead, flushSnap, upperVars>>

LineIds == 0 .. (CACHE_SIZE - 1)
CacheSectors == 0 .. (DeviceSectors - 1)

\* struct cache_block after cache_init had the memory not been zeroed.
EmptyLineUnzeroed ==
    [valid |-> FALSE, dirty |-> TRUE, disk_sector |-> 0, time |-> 0,
     sema |-> 1, disk_data |-> 0]

\* struct cache_block after calloc and cache_init.
EmptyLine ==
    [valid |-> FALSE, dirty |-> FALSE, disk_sector |-> 0, time |-> 0,
     sema |-> 1, disk_data |-> 0]

IdleTask(p) ==
    [pc |-> p, op |-> "none", sector |-> 0, data |-> 0, i |-> 0,
     evict |-> NoLine, earliest |-> 0]

NoRead == [sector |-> 0, value |-> 0, expect |-> NoVal]

\* cache_init: every line invalid with its semaphore at 1, the read-ahead
\* buffer empty, the flusher and the read-ahead thread created.
InitCache ==
    /\ cache = [i \in LineIds |-> EmptyLine]
    /\ disk = [s \in CacheSectors |-> 0]
    /\ ticks = 0
    /\ read_head_buffer = << >>
    /\ read_head_lock = "free"
    /\ task = [t \in {"cl", "ra", "fl"} |->
                 IdleTask(CASE t = "cl" -> "idle" [] t = "ra" -> "wait"
                            [] OTHER -> "sleep")]
    /\ panic = FALSE
    /\ calls = 0
    /\ lastWritten = [s \in CacheSectors |-> NoVal]
    /\ lastRead = NoRead
    /\ flushSnap = {}
    /\ free_map = {}
    /\ inodes = << >>
    /\ open_inodes = << >>
    /\ hung = FALSE
    /\ hf = << >>
    /\ res = [op |-> "none"]
    /\ ops = 0
    /\ starved = FALSE
    /\ threads = << >>

\* Ghost bookkeeping of a completed cache_write (sector s, data d).
NoteWrite(s, d) ==
    /\ lastWritten' = [lastWritten EXCEPT ![s] = d]
    /\ flushSnap' = flushSnap \ {s}

\* Ghost bookkeeping of a completed cache_read (sector s returned v).
NoteRead(s, v) ==
    lastRead' = [sector |-> s, value |-> v, expect |-> lastWritten[s]]

\* The timer interrupt.
Tick ==
    /\ ~panic
    /\ UNCHANGED upperVars
    /\ ticks < MaxTicks
    /\ ticks' = ticks + 1
    /\ UNCHANGED <<cache, disk, read_head_buffer, read_head_lock, task, panic,
                   lastWritten, lastRead, flushSnap, calls>>

\* A client enters cache_read (op = "read") or cache_write (op = "write").
ClientCall ==
    /\ ~panic
    /\ UNCHANGED upperVars
    /\ task["cl"].pc = "idle"
    /\ calls < MaxCalls
    /\ calls' = calls + 1
    /\ \E o \in {"read", "write"}, s \in CacheSectors, d \in 1 .. MaxVal :
         task' = [task EXCEPT !["cl"] =
                    [IdleTask("find") EXCEPT !.op = o, !.sector = s,
                       !.data = IF o = "write" THEN d ELSE 0]]
    /\ lastRead' = NoRead
    /\ UNCHANGED <<cache, disk, ticks, read_head_buffer, read_head_lock, panic,
                   lastWritten, flushSnap>>

\* The task leaves the cache code: the client goes on to
\* put_read_ahead_buffer after a read, the consumer releases read_head_lock.
AfterLine(t) ==
    CASE task[t].op = "read" -> [task[t] EXCEPT !.pc = "put"]
      [] task[t].op = "write" -> IdleTask("idle")
      [] OTHER -> IdleTask("wait")

\* find_cacheline, one line per step: sema_down, compare, and on a match the
\* rest of cache_read / cache_write / read_ahead up to sema_up.
Find(t) ==
    /\ ~panic
    /\ UNCHANGED upperVars
    /\ task[t].pc = "find"
    /\ LET i == task[t].i
           l == cache[i]
           s == task[t].sector
       IN /\ l.sema = 1
          /\ IF l.valid /\ l.disk_sector = s
             THEN /\ task' = [task EXCEPT ![t] = AfterLine(t)]
                  /\ read_head_lock' =
                       IF t = "ra" THEN "free" ELSE read_head_lock
                  /\ CASE task[t].op = "read" ->
                            /\ cache' = [cache EXCEPT ![i].time = ticks]
                            /\ NoteRead(s, l.disk_data)
                            /\ UNCHANGED <<lastWritten, flushSnap>>
                       [] task[t].op = "write" ->
                            /\ cache' = [cache EXCEPT ![i].disk_data = task[t].data,
                                                      ![i].time = ticks,
                                                      ![i].dirty = TRUE]
                            /\ NoteWrite(s, task[t].data)
                            /\ UNCHANGED lastRead
                       [] OTHER ->
                            UNCHANGED <<cache, lastWritten, lastRead, flushSnap>>
             ELSE /\ task' = [task EXCEPT ![t] =
                                IF i + 1 = CACHE_SIZE
                                THEN [task[t] EXCEPT !.pc = "evict", !.i = 0,
                                        !.evict = NoLine, !.earliest = ticks]
                                ELSE [task[t] EXCEPT !.i = i + 1]]
                  /\ UNCHANGED <<cache, read_head_lock, lastWritten, lastRead,
                                 flushSnap>>
    /\ UNCHANGED <<disk, ticks, read_head_buffer, panic, calls>>

\* The end of choose_evict without its write-back.
WriteBackSkipped(evict) == disk

\* The end of choose_evict: the device after the line evict was written
\* back if it is dirty.
WriteBack(evict) ==
    IF evict.dirty THEN [disk EXCEPT ![evict.disk_sector] = evict.disk_data]
    ELSE disk

\* choose_evict, one line per step.  The candidate stays held (sema = 0)
\* while the scan goes on; after the last line a dirty candidate is written
\* back, and a scan that selected no line dereferences NULL.
Evict(t) ==
    /\ ~panic
    /\ UNCHANGED upperVars
    /\ task[t].pc = "evict"
    /\ LET i == task[t].i
           l == cache[i]
           ev == task[t].evict
           released == IF ev = NoLine THEN cache
                       ELSE [cache EXCEPT ![ev].sema = 1]
       IN /\ l.sema = 1
          /\ IF ~l.valid
             THEN /\ cache' = [released EXCEPT ![i].sema = 0]
                  /\ task' = [task EXCEPT ![t] =
                                [task[t] EXCEPT !.pc = "install", !.i = i,
                                                !.evict = NoLine]]
                  /\ UNCHANGED <<disk, panic>>
             ELSE LET take == l.time < task[t].earliest
                      ev2 == IF take THEN i ELSE ev
                      c2 == IF take THEN [released EXCEPT ![i].sema = 0]
                            ELSE cache
                  IN IF i + 1 < CACHE_SIZE
                     THEN /\ cache' = c2
                          /\ task' = [task EXCEPT ![t] =
                                        [task[t] EXCEPT !.i = i + 1, !.evict = ev2,
                                           !.earliest = IF take THEN l.time
                                                        ELSE task[t].earliest]]
                          /\ UNCHANGED <<disk, panic>>
                     ELSE IF ev2 = NoLine
                          THEN /\ panic' = TRUE
                               /\ UNCHANGED <<cache, disk, task>>
                          ELSE /\ cache' = c2
                               /\ disk' = WriteBack(c2[ev2])
                               /\ task' = [task EXCEPT ![t] =
                                             [task[t] EXCEPT !.pc = "install",
                                                !.i = ev2, !.evict = NoLine]]
                               /\ UNCHANGED panic
    /\ UNCHANGED <<ticks, read_head_buffer, read_head_lock, lastWritten, lastRead,
                   flushSnap, calls>>

\* The miss path after choose_evict returned line task[t].i, up to sema_up.
Install(t) ==
    /\ ~panic
    /\ UNCHANGED upperVars
    /\ task[t].pc = "install"
    /\ LET i == task[t].i
           s == task[t].sector
       IN /\ task' = [task EXCEPT ![t] = AfterLine(t)]
          /\ read_head_lock' = IF t = "ra" THEN "free" ELSE read_head_lock
          /\ CASE task[t].op = "read" ->
                    /\ cache' = [cache EXCEPT ![i] =
                                   [valid |-> TRUE, dirty |-> FALSE, disk_sector |-> s,
                                    time |-> ticks, sema |-> 1, disk_data |-> disk[s]]]
                    /\ NoteRead(s, disk[s])
                    /\ UNCHANGED <<lastWritten, flushSnap>>
               [] task[t].op = "write" ->
                    /\ cache' = [cache EXCEPT ![i] =
                                   [valid |-> TRUE, dirty |-> TRUE, disk_sector |-> s,
                                    time |-> ticks, sema |-> 1,
                                    disk_data |-> task[t].data]]
                    /\ NoteWrite(s, task[t].data)
                    /\ UNCHANGED lastRead
               [] OTHER ->
                    /\ cache' = [cache EXCEPT ![i] =
                                   [valid |-> TRUE, dirty |-> FALSE, disk_sector |-> s,
                                    time |-> cache[i].time, sema |-> 1,
                                    disk_data |-> disk[s]]]
                    /\ UNCHANGED <<lastWritten, lastRead, flushSnap>>
    /\ UNCHANGED <<disk, ticks, read_head_buffer, panic, calls>>

\* put_read_ahead_buffer (block, sector + 1) at the end of cache_read: waits
\* for read_head_lock and while the buffer is full, then pushes.
Put ==
    /\ ~panic
    /\ UNCHANGED upperVars
    /\ task["cl"].pc = "put"
    /\ read_head_lock = "free"
    /\ Len(read_head_buffer) < READ_AHEAD_BUFFER_SIZE
    /\ read_head_buffer' = Append(read_head_buffer, task["cl"].sector + 1)
    /\ task' = [task EXCEPT !["cl"] = IdleTask("idle")]
    /\ UNCHANGED <<cache, disk, ticks, read_head_lock, panic, lastWritten, lastRead,
                   flushSnap, calls>>

\* read_ahead: pops the element at --read_head_buffer_n with read_head_lock
\* held; a sector past the device is dropped.
RaPop ==
    /\ ~panic
    /\ UNCHANGED upperVars
    /\ task["ra"].pc = "wait"
    /\ read_head_lock = "free"
    /\ Len(read_head_buffer) > 0
    /\ LET n == Len(read_head_buffer)
           e == read_head_buffer[n]
       IN /\ read_head_buffer' = SubSeq(read_head_buffer, 1, n - 1)
          /\ IF e < DeviceSectors
             THEN /\ read_head_lock' = "ra"
                  /\ task' = [task EXCEPT !["ra"] =
                                [IdleTask("find") EXCEPT !.op = "ahead", !.sector = e]]
             ELSE UNCHANGED <<read_head_lock, task>>
    /\ UNCHANGED <<cache, disk, ticks, panic, lastWritten, lastRead, flushSnap, calls>>

\* cache_flusher wakes up and calls flush_cache.
FlushStart ==
    /\ ~panic
    /\ UNCHANGED upperVars
    /\ task["fl"].pc = "sleep"
    /\ task' = [task EXCEPT !["fl"] = IdleTask("flush")]
    /\ flushSnap' = {s \in CacheSectors : lastWritten[s] # NoVal}
    /\ UNCHANGED <<cache, disk, ticks, read_head_buffer, read_head_lock, panic,
                   lastWritten, lastRead, calls>>

\* flush_cache, one line per step: sema_down, write back if dirty, sema_up.
FlushLine ==
    /\ ~panic
    /\ UNCHANGED upperVars
    /\ task["fl"].pc = "flush"
    /\ LET i == task["fl"].i
           l == cache[i]
       IN /\ l.sema = 1
          /\ IF l.dirty
             THEN /\ disk' = [disk EXCEPT ![l.disk_sector] = l.disk_data]
                  /\ cache' = [cache EXCEPT ![i].dirty = FALSE]
             ELSE UNCHANGED <<disk, cache>>
          /\ task' = [task EXCEPT !["fl"] =
                        IF i + 1 = CACHE_SIZE THEN IdleTask("ret")
                        ELSE [task["fl"] EXCEPT !.i = i + 1]]
    /\ UNCHANGED <<ticks, read_head_buffer, read_head_lock, panic, lastWritten,
                   lastRead, flushSnap, calls>>

\* flush_cache has returned; the flusher goes to timer_msleep (5000).
FlushReturn ==
    /\ ~panic
    /\ UNCHANGED upperVars
    /\ task["fl"].pc = "ret"
    /\ task' = [task EXCEPT !["fl"] = IdleTask("sleep")]
    /\ flushSnap' = {}
    /\ UNCHANGED <<cache, disk, ticks, read_head_buffer, read_head_lock, panic,
                   lastWritten, lastRead, calls>>

NextCache ==
    \/ Tick
    \/ ClientCall
    \/ Find("cl")
    \/ Find("ra")
    \/ Evict("cl")
    \/ Evict("ra")
    \/ Install("cl")
    \/ Install("ra")
    \/ Put
    \/ RaPop
    \/ FlushStart
    \/ FlushLine
    \/ FlushReturn

SpecCache == InitCache /\ [][NextCache]_vars

(***************************************************************************)
(* C2.  When flush_cache returns, the device holds, for every sector, the *)
(* data of the most recent cache_write that completed before the flush    *)
(* was requested, unless a later write to the sector superseded it.       *)
(***************************************************************************)
C2_FlushDurable ==
    task["fl"].pc = "ret" =>
        \A s \in flushSnap : disk[s] = lastWritten[s]

(***************************************************************************)
(* C3.  After cache_write (s, d) returned, a later cache_read (s) returns *)
(* d until the next cache_write to s.                                     *)
(***************************************************************************)
C3_ReadAfterWrite ==
    lastRead.expect # NoVal => lastRead.value = lastRead.expect

(***************************************************************************)
(* The inode layer (filesys/inode.c) over the cache, sequentially: one    *)
(* call at a time, as under the file system lock of userprog/syscall.c.   *)
(* A sector holds BLOCK_SECTOR_SIZE cells; a cell is one byte of file     *)
(* data, one directory entry or one sector pointer of an index block.     *)
(* The literals 10 (direct blocks) and 128 (pointers per index block) are *)
(* scaled to DIRECT_BLOCKS and PTRS.                                      *)
(***************************************************************************)
BLOCK_SECTOR_SIZE == 2
DIRECT_BLOCKS == 2
\* block_size (fs_device) in the inode and file system specifications.
FsSectors == 16
INODE_MAGIC == 1229868868
FREE_MAP_SECTOR == 0
ROOT_DIR_SECTOR == 1

PTRS == BLOCK_SECTOR_SIZE
NoSector == 0 - 1
CellIds == 0 .. (BLOCK_SECTOR_SIZE - 1)
FsSectorIds == 0 .. (FsSectors - 1)
\* blocks[IndirectIdx] is blocks[10], blocks[DoubleIdx] is blocks[11].
IndirectIdx == DIRECT_BLOCKS
DoubleIdx == DIRECT_BLOCKS + 1
\* Bytes an inode can index: 10 + 128 + 128 * 128 sectors.
MaxFileSectors == DIRECT_BLOCKS + PTRS + PTRS * PTRS

\* A sector's contents: cells, or the image of a struct inode_disk.
ZeroCells == [j \in CellIds |-> 0]
CellSector(c) == [k |-> "cells", v |-> c]
InodeSector(d) == [k |-> "inode", v |-> d]
zeros == CellSector(ZeroCells)

\* struct inode_disk as inode_create initialises it (calloc, then fields).
NewInodeDisk(length, is_dir) ==
    [blocks |-> [b \in 0 .. DoubleIdx |-> 0],
     direct_usage |-> 0, indirect_used |-> 0, indirect_block_usage |-> 0,
     double_used |-> 0, double_l1_usage |-> 0, double_l2_usage |-> 0,
     sector_usage |-> 0, length |-> length, magic |-> INODE_MAGIC,
     is_dir |-> is_dir, parent |-> ROOT_DIR_SECTOR]

\* The 32-bit words of a struct inode_disk in declaration order.
InodeWords(d) ==
    [w \in 0 .. (DoubleIdx + 11) |->
        IF w <= DoubleIdx THEN d.blocks[w]
        ELSE CASE w = DoubleIdx + 1 -> d.direct_usage
               [] w = DoubleIdx + 2 -> d.indirect_used
               [] w = DoubleIdx + 3 -> d.indirect_block_usage
               [] w = DoubleIdx + 4 -> d.double_used
               [] w = DoubleIdx + 5 -> d.double_l1_usage
               [] w = DoubleIdx + 6 -> d.double_l2_usage
               [] w = DoubleIdx + 7 -> d.sector_usage
               [] w = DoubleIdx + 8 -> d.length
               [] w = DoubleIdx + 9 -> d.magic
               [] w = DoubleIdx + 10 -> IF d.is_dir THEN 1 ELSE 0
               [] OTHER -> d.parent]

\* A sector read as an array of cells (block_sector_t[128] or bytes): an
\* inode image shows its leading words.
Cells(x) ==
    IF x.k = "cells" THEN x.v
    ELSE [j \in CellIds |-> InodeWords(x.v)[j]]

\* A sector read as a struct inode_disk: cells show up as blocks[], the
\* words past the sector's cells are zero.
AsInode(x) ==
    IF x.k = "inode" THEN x.v
    ELSE [NewInodeDisk(0, FALSE) EXCEPT
            !.blocks = [b \in 0 .. DoubleIdx |->
                          IF b < BLOCK_SECTOR_SIZE THEN x.v[b] ELSE 0],
            !.magic = 0, !.parent = 0]

\* A bytes_to_sectors that rounds down.
SectorsRoundedDown(size) == size \div BLOCK_SECTOR_SIZE

\* bytes_to_sectors: DIV_ROUND_UP (size, BLOCK_SECTOR_SIZE).
bytes_to_sectors(size) == (size + BLOCK_SECTOR_SIZE - 1) \div BLOCK_SECTOR_SIZE

(***************************************************************************)
(* The storage below the inode layer as one value st: the device, the     *)
(* cache, the tick, the read-ahead buffer, the free map, and what the     *)
(* current call did to the device behind the cache (direct, behind).      *)
(***************************************************************************)

\* find_cacheline without contention: the first valid line of the sector.
LineOf(c, s) ==
    IF \E i \in LineIds : c[i].valid /\ c[i].disk_sector = s
    THEN CHOOSE i \in LineIds :
            /\ c[i].valid /\ c[i].disk_sector = s
            /\ \A j \in 0 .. (i - 1) : ~(c[j].valid /\ c[j].disk_sector = s)
    ELSE NoLine

\* The scan of choose_evict: an invalid line at once, else the first line
\* with the smallest time below earliest; NoLine when no line is selected.
RECURSIVE EvictScan(_, _, _, _)
EvictScan(c, i, ev, earliest) ==
    IF i = CACHE_SIZE THEN ev
    ELSE IF ~c[i].valid THEN i
    ELSE IF c[i].time < earliest THEN EvictScan(c, i + 1, i, c[i].time)
    ELSE EvictScan(c, i + 1, ev, earliest)

\* The element of a singleton set.  Only({e(x) : x \in {v}}) is e(v): it
\* names the value v that a call returned, for the rest e of the function
\* body; nested, the innermost expression is the end of the body.
Only(S) == CHOOSE x \in S : TRUE

\* choose_evict without contention: the line, written back if it is dirty.
SeqEvict(st) ==
    Only({ IF ln = NoLine THEN [st |-> [st EXCEPT !.panic = TRUE], line |-> 0]
           ELSE [st |-> IF st.cache[ln].valid /\ st.cache[ln].dirty
                        THEN [st EXCEPT !.disk[st.cache[ln].disk_sector] =
                                           st.cache[ln].disk_data]
                        ELSE st,
                 line |-> ln]
           : ln \in {EvictScan(st.cache, 0, NoLine, st.ticks)} })

\* block_read / block_write PANIC on a sector past the end of the device.
OnDevice(s) == s \in FsSectorIds
DevRead(st, s) == IF OnDevice(s) THEN st.disk[s] ELSE zeros

\* The body of read_ahead for the popped element e: load the sector unless
\* it is past the device or already cached; the line's time is left as it was.
RaLoad(st1, e) ==
    IF e >= FsSectors \/ LineOf(st1.cache, e) # NoLine THEN st1
    ELSE Only({ [ev.st EXCEPT !.cache[ev.line] =
                   [valid |-> TRUE, dirty |-> FALSE, disk_sector |-> e,
                    time |-> ev.st.cache[ev.line].time, sema |-> 1,
                    disk_data |-> ev.st.disk[e]]]
                : ev \in {SeqEvict(st1)} })

RaConsume(st) ==
    RaLoad([st EXCEPT !.rab = SubSeq(@, 1, Len(@) - 1)], st.rab[Len(st.rab)])

\* put_read_ahead_buffer: a producer that finds the buffer full waits until
\* the consumer has popped an element.
PutReadAhead(st, s) ==
    Only({ [st1 EXCEPT !.rab = Append(@, s)]
           : st1 \in {IF Len(st.rab) = READ_AHEAD_BUFFER_SIZE THEN RaConsume(st)
                      ELSE st} })

\* find_cacheline and, on a miss, choose_evict: [st, line, hit].
GetLine(st, s) ==
    IF LineOf(st.cache, s) # NoLine
    THEN [st |-> st, line |-> LineOf(st.cache, s), hit |-> TRUE]
    ELSE Only({ [st |-> ev.st, line |-> ev.line, hit |-> FALSE]
                : ev \in {SeqEvict(st)} })

\* The line of cache_read once it holds the sector.
ReadLine(ev, s) ==
    IF ev.hit THEN [ev.st.cache[ev.line] EXCEPT !.time = ev.st.ticks]
    ELSE [valid |-> TRUE, dirty |-> FALSE, disk_sector |-> s,
          time |-> ev.st.ticks, sema |-> 1, disk_data |-> ev.st.disk[s]]

\* cache_read: [st, data].
CacheReadS(st, s) ==
    IF ~OnDevice(s) THEN [st |-> [st EXCEPT !.panic = TRUE], data |-> zeros]
    ELSE Only({ [st |-> PutReadAhead([ev.st EXCEPT
                                        !.cache[ev.line] = ReadLine(ev, s),
                                        !.ticks = @ + 1],
                                     s + 1),
                 data |-> ReadLine(ev, s).disk_data]
                : ev \in {GetLine(st, s)} })

\* cache_write.
CacheWriteS(st, s, data) ==
    IF ~OnDevice(s) THEN [st EXCEPT !.panic = TRUE]
    ELSE Only({ [ev.st EXCEPT !.cache[ev.line] =
                   [valid |-> TRUE, dirty |-> TRUE, disk_sector |-> s,
                    time |-> ev.st.ticks, sema |-> 1, disk_data |-> data],
                   !.ticks = @ + 1]
                : ev \in {GetLine(st, s)} })
\* flush_cache without contention.
FlushS(st) ==
    LET dirtyLines == {i \in LineIds : st.cache[i].dirty}
        \* lines are written in index order: the highest line of a sector last
        last(s) == CHOOSE i \in dirtyLines :
                      /\ st.cache[i].disk_sector = s
                      /\ \A j \in dirtyLines :
                            st.cache[j].disk_sector = s => j <= i
    IN [st EXCEPT
          !.disk = [s \in DOMAIN st.disk |->
                      IF \E i \in dirtyLines : st.cache[i].disk_sector = s
                      THEN st.cache[last(s)].disk_data ELSE st.disk[s]],
          !.cache = [i \in LineIds |-> [st.cache[i] EXCEPT !.dirty = FALSE]]]

\* block_write called by the inode layer itself, past the cache.
BlockWrite(st, s, data) ==
    IF ~OnDevice(s) THEN [st EXCEPT !.panic = TRUE] ELSE
    [st EXCEPT !.disk[s] = data,
               !.direct = @ \cup {s},
               !.behind = IF \E i \in LineIds : /\ st.cache[i].valid
                                                /\ st.cache[i].dirty
                                                /\ st.cache[i].disk_sector = s
                          THEN @ \cup {s} ELSE @]

\* block_read called by the inode layer itself, past the cache: the data
\* read, and the storage after the call.
BlockRead(st, s) == DevRead(st, s)
BlockReadSt(st, s) == IF OnDevice(s) THEN st ELSE [st EXCEPT !.panic = TRUE]

\* free_map_allocate (1, &sector): the first free sector; on failure the
\* caller's variable keeps its old value.
FirstFree(fmap) ==
    IF FsSectorIds \ fmap = {} THEN NoSector
    ELSE CHOOSE s \in FsSectorIds \ fmap : \A t \in FsSectorIds \ fmap : s <= t

(***************************************************************************)
(* inode_disk_grow.  r = [st, di, remain, got, fails, hang]: the storage, *)
(* the struct inode_disk being grown, remain_sectors, the sectors the     *)
(* call allocated, the number of free_map_allocate calls that failed, and *)
(* whether the outer loop can no longer end.  g is the value found in     *)
(* the uninitialised stack arrays blocks_indirect, blocks_l1, blocks_l2.  *)
(***************************************************************************)
Garbage(g) == [j \in CellIds |-> g]

\* free_map_allocate (1, &var), var holding old: [r, sector]; the result of
\* the call is not looked at.
GrowAlloc(r, old) ==
    Only({ IF s = NoSector
           THEN [r |-> [r EXCEPT !.fails = @ + 1], sector |-> old]
           ELSE [r |-> [r EXCEPT !.st.fmap = @ \cup {s}, !.got = @ \cup {s}],
                 sector |-> s]
           : s \in {FirstFree(r.st.fmap)} })

\* A data sector that is allocated and zeroed but not counted in
\* sector_usage.
GrowDataUncounted(r, old) ==
    Only({ [r |-> [a.r EXCEPT !.st = BlockWrite(@, a.sector, zeros),
                              !.remain = @ - 1],
            sector |-> a.sector]
           : a \in {GrowAlloc(r, old)} })

\* One data sector: allocate, block_write zeros, count it.
GrowData(r, old) ==
    Only({ [r |-> [a.r EXCEPT !.st = BlockWrite(@, a.sector, zeros),
                              !.di.sector_usage = @ + 1,
                              !.remain = @ - 1],
            sector |-> a.sector]
           : a \in {GrowAlloc(r, old)} })

GrowDirect(r) ==
    Only({ [a.r EXCEPT !.di.blocks[r.di.direct_usage] = a.sector,
                       !.di.direct_usage = @ + 1]
           : a \in {GrowData(r, r.di.blocks[r.di.direct_usage])} })

RECURSIVE GrowIndirectFill(_, _, _)
GrowIndirectFill(r, bi, i) ==
    IF i < PTRS /\ r.remain > 0
    THEN Only({ GrowIndirectFill([a.r EXCEPT !.di.indirect_block_usage = @ + 1],
                                 [bi EXCEPT ![i] = a.sector], i + 1)
                : a \in {GrowData(r, bi[i])} })
    ELSE [r |-> r, bi |-> bi]

\* An index block: its sector allocated on first use (a: [r, sector]), the
\* storage after the block_read that loads a block already in use.
IndexAlloc(r, used, old) ==
    IF used THEN [r |-> [r EXCEPT !.st = BlockReadSt(@, old)], sector |-> old]
    ELSE GrowAlloc(r, old)
IndexCells(r, used, old, g) ==
    IF used THEN Cells(BlockRead(r.st, old)) ELSE Garbage(g)

GrowIndirect(r, g) ==
    Only({ Only({ [f.r EXCEPT !.st = BlockWrite(@, a.sector, CellSector(f.bi)),
                              !.di.indirect_used = 1]
                  : f \in {GrowIndirectFill(
                              [a.r EXCEPT !.di.blocks[IndirectIdx] = a.sector],
                              IndexCells(r, r.di.indirect_block_usage > 0,
                                         r.di.blocks[IndirectIdx], g),
                              a.r.di.indirect_block_usage)} })
           : a \in {IndexAlloc(r, r.di.indirect_block_usage > 0,
                               r.di.blocks[IndirectIdx])} })

RECURSIVE GrowL2Fill(_, _, _)
GrowL2Fill(r, l2, j) ==
    IF j < PTRS /\ r.remain > 0
    THEN Only({ GrowL2Fill(IF j = PTRS - 1
                           THEN [a.r EXCEPT !.di.double_l2_usage = 0,
                                            !.di.double_l1_usage = @ + 1]
                           ELSE [a.r EXCEPT !.di.double_l2_usage = @ + 1],
                           [l2 EXCEPT ![j] = a.sector], j + 1)
                : a \in {GrowData(r, l2[j])} })
    ELSE [r |-> r, l2 |-> l2]

RECURSIVE GrowL1Fill(_, _, _, _)
GrowL1Fill(r, l1, i, g) ==
    IF i < PTRS /\ r.remain > 0
    THEN Only({ Only({ GrowL1Fill([f.r EXCEPT !.st = BlockWrite(@, a.sector,
                                                            CellSector(f.l2))],
                                  [l1 EXCEPT ![i] = a.sector], i + 1, g)
                       : f \in {GrowL2Fill(
                                   a.r,
                                   IndexCells(r, r.di.double_l2_usage > 0,
                                              l1[i], g),
                                   a.r.di.double_l2_usage)} })
                : a \in {IndexAlloc(r, r.di.double_l2_usage > 0, l1[i])} })
    ELSE [r |-> r, l1 |-> l1]

GrowDouble(r, g) ==
    Only({ Only({ [f.r EXCEPT !.st = BlockWrite(@, a.sector, CellSector(f.l1)),
                              !.di.double_used = 1]
                  : f \in {GrowL1Fill(
                              [a.r EXCEPT !.di.blocks[DoubleIdx] = a.sector],
                              IndexCells(r, r.di.double_used = 1,
                                         r.di.blocks[DoubleIdx], g),
                              a.r.di.double_l1_usage, g)} })
           : a \in {IndexAlloc(r, r.di.double_used = 1,
                               r.di.blocks[DoubleIdx])} })
\* One pass of the while loop: the branch taken.
GrowStep(r, g) ==
    IF r.di.direct_usage < DIRECT_BLOCKS THEN GrowDirect(r)
    ELSE IF r.di.indirect_block_usage < PTRS THEN GrowIndirect(r, g)
    ELSE GrowDouble(r, g)

\* The while loop.  With every level-1 slot used the double-indirect pass
\* allocates nothing and remain_sectors stays positive: the loop never ends.
RECURSIVE GrowLoop(_, _)
GrowLoop(r, g) ==
    IF r.remain <= 0 THEN r
    ELSE IF /\ r.di.direct_usage >= DIRECT_BLOCKS
            /\ r.di.indirect_block_usage >= PTRS
            /\ r.di.double_l1_usage >= PTRS
    THEN [r EXCEPT !.hang = TRUE]
    ELSE GrowLoop(GrowStep(r, g), g)

inode_disk_grow(st, di, g) ==
    GrowLoop([st |-> st, di |-> di,
              remain |-> bytes_to_sectors(di.length) - di.sector_usage,
              got |-> {}, fails |-> 0, hang |-> FALSE], g)
(***************************************************************************)
(* free_inode.  r = [st, di, remain, rel, hang]: rel lists the sectors    *)
(* handed to free_map_release, in order.                                  *)
(***************************************************************************)
\* free_map_release (s, 1).
Release(r, s) == [r EXCEPT !.st.fmap = @ \ {s}, !.rel = Append(@, s)]

RECURSIVE FreeIndirectLoop(_, _, _)
FreeIndirectLoop(r, bi, i) ==
    IF i < r.di.indirect_block_usage /\ r.remain > 0
    THEN FreeIndirectLoop([Release(r, bi[i]) EXCEPT !.remain = @ - 1], bi, i + 1)
    ELSE r

RECURSIVE FreeL2Loop(_, _, _)
FreeL2Loop(r, l2, j) ==
    IF j < PTRS /\ r.remain > 0
    THEN FreeL2Loop([Release(r, l2[j]) EXCEPT !.remain = @ - 1], l2, j + 1)
    ELSE r

RECURSIVE FreeL1Loop(_, _, _)
FreeL1Loop(r, l1, i) ==
    IF i < r.di.double_l1_usage /\ r.remain > 0
    THEN LET l2 == Cells(BlockRead(r.st, l1[i]))
             r1 == [r EXCEPT !.st = BlockReadSt(@, l1[i])]
         IN FreeL1Loop(Release(FreeL2Loop(r1, l2, 0), l1[i]), l1, i + 1)
    ELSE r

\* The while loop.  With sectors still to free and no branch left to take
\* (all three usage marks cleared) the loop never ends.
RECURSIVE FreeLoop(_)
FreeLoop(r) ==
    IF r.remain <= 0 THEN r
    ELSE IF r.di.direct_usage > 0
    THEN FreeLoop([Release(r, r.di.blocks[r.di.direct_usage - 1]) EXCEPT
                     !.di.direct_usage = @ - 1, !.remain = @ - 1])
    ELSE IF r.di.indirect_used = 1
    THEN LET bi == Cells(BlockRead(r.st, r.di.blocks[IndirectIdx]))
             r1 == [r EXCEPT !.st = BlockReadSt(@, r.di.blocks[IndirectIdx])]
             f == FreeIndirectLoop(r1, bi, 0)
         IN FreeLoop([Release(f, r.di.blocks[IndirectIdx]) EXCEPT
                        !.di.indirect_used = 0])
    ELSE IF r.di.double_used = 1
    THEN LET l1 == Cells(BlockRead(r.st, r.di.blocks[DoubleIdx]))
             r1 == [r EXCEPT !.st = BlockReadSt(@, r.di.blocks[DoubleIdx])]
             f == FreeL1Loop(r1, l1, 0)
         IN FreeLoop([Release(f, r.di.blocks[DoubleIdx]) EXCEPT
                        !.di.double_used = 0])
    ELSE [r EXCEPT !.hang = TRUE]

free_inode(st, di, rel) ==
    FreeLoop([st |-> st, di |-> di, remain |-> bytes_to_sectors(di.length),
              rel |-> rel, hang |-> FALSE])

\* A sector number past the end of the device.
PastDevice == FsSectors

\* byte_to_sector: the index blocks are read with block_read.  Where that
\* block_read is of a sector past the device (a PANIC), the result is
\* PastDevice, on which the caller's cache access faults.
byte_to_sector(st, di, pos) ==
    LET q == pos - (DIRECT_BLOCKS + PTRS) * BLOCK_SECTOR_SIZE
        WithL1(temp_l1_blocks, l1_index) ==
            IF ~OnDevice(di.blocks[DoubleIdx]) \/ l1_index >= PTRS
            THEN PastDevice
            ELSE IF ~OnDevice(temp_l1_blocks[l1_index]) THEN PastDevice
            ELSE Cells(BlockRead(st, temp_l1_blocks[l1_index]))
                   [(q % (PTRS * BLOCK_SECTOR_SIZE)) \div BLOCK_SECTOR_SIZE]
    IN IF pos < di.length
       THEN IF pos < DIRECT_BLOCKS * BLOCK_SECTOR_SIZE
            THEN di.blocks[pos \div BLOCK_SECTOR_SIZE]
            ELSE IF pos - DIRECT_BLOCKS * BLOCK_SECTOR_SIZE < PTRS * BLOCK_SECTOR_SIZE
            THEN IF ~OnDevice(di.blocks[IndirectIdx]) THEN PastDevice
                 ELSE Cells(BlockRead(st, di.blocks[IndirectIdx]))
                        [(pos - DIRECT_BLOCKS * BLOCK_SECTOR_SIZE)
                            \div BLOCK_SECTOR_SIZE]
            ELSE WithL1(Cells(BlockRead(st, di.blocks[DoubleIdx])),
                        q \div (PTRS * BLOCK_SECTOR_SIZE))
       ELSE NoSector
(***************************************************************************)
(* In-memory inodes.  st.ino maps an object id to a struct inode (live is *)
(* FALSE for memory that malloc has not handed out or that was freed),    *)
(* st.open is the list open_inodes, front first.                          *)
(***************************************************************************)
MaxInodes == 5
InodeIds == 1 .. MaxInodes
\* A null struct inode *.
NoInode == 0

BlankInode ==
    [live |-> FALSE, sector |-> 0, open_cnt |-> 0, removed |-> FALSE,
     deny_write_cnt |-> 0, data |-> NewInodeDisk(0, FALSE)]

\* The scan of open_inodes in inode_open: position of the first inode of
\* the sector, 0 when there is none.
OpenIdx(st, sector) ==
    LET hits == {k \in 1 .. Len(st.open) : st.ino[st.open[k]].sector = sector}
    IN IF hits = {} THEN 0 ELSE CHOOSE k \in hits : \A j \in hits : k <= j

\* malloc (sizeof *inode): the lowest unused object, NoInode when none is left.
MallocInode(st) ==
    LET free == {i \in InodeIds : ~st.ino[i].live}
    IN IF free = {} THEN NoInode ELSE CHOOSE i \in free : \A j \in free : i <= j

\* inode_open after the scan found nothing: list_push_front, initialise,
\* cache_read of the inode sector.
InodeOpenNew(st, sector) ==
    IF MallocInode(st) = NoInode THEN [st |-> st, inode |-> NoInode]
    ELSE Only({ [st |-> [rd.st EXCEPT !.ino[MallocInode(st)] =
                           [live |-> TRUE, sector |-> sector, open_cnt |-> 1,
                            removed |-> FALSE, deny_write_cnt |-> 0,
                            data |-> AsInode(rd.data)]],
                 inode |-> MallocInode(st)]
                : rd \in {CacheReadS([st EXCEPT !.open = <<MallocInode(st)>> \o @],
                                     sector)} })

\* inode_open: [st, inode].
inode_open(st, sector) ==
    IF OpenIdx(st, sector) # 0
    THEN [st |-> [st EXCEPT !.ino[st.open[OpenIdx(st, sector)]].open_cnt = @ + 1],
          inode |-> st.open[OpenIdx(st, sector)]]
    ELSE InodeOpenNew(st, sector)

inode_reopen(st, id) ==
    IF id # NoInode THEN [st EXCEPT !.ino[id].open_cnt = @ + 1] ELSE st

\* list_remove (&inode->elem).
ListRemove(seq, id) == SelectSeq(seq, LAMBDA x : x # id)

\* The end of the last close of a removed inode: its own sector and, through
\* free_inode, its data sectors are released.
FreeRemoved(st, id, st1) ==
    Only({ [fr.st EXCEPT !.rel = fr.rel, !.hang = @ \/ fr.hang]
           : fr \in {free_inode([st1 EXCEPT !.fmap = @ \ {st.ino[id].sector}],
                                st.ino[id].data,
                                Append(st1.rel, st.ino[id].sector))} })

\* The last close: the inode leaves the list, its image is written back, and
\* a removed inode's sectors are released.
InodeCloseLast(st, id) ==
    Only({ [(IF st.ino[id].removed THEN FreeRemoved(st, id, st1) ELSE st1)
               EXCEPT !.ino[id] = BlankInode]
           : st1 \in {CacheWriteS([st EXCEPT !.open = ListRemove(@, id)],
                                  st.ino[id].sector,
                                  InodeSector(st.ino[id].data))} })
\* inode_close.  st.rel collects the sectors handed to free_map_release and
\* st.hang tells that free_inode does not return.
inode_close(st, id) ==
    IF id = NoInode THEN st
    ELSE IF st.ino[id].open_cnt - 1 # 0
    THEN [st EXCEPT !.ino[id].open_cnt = @ - 1]
    ELSE InodeCloseLast(st, id)

inode_remove(st, id) == [st EXCEPT !.ino[id].removed = TRUE]

\* inode_deny_write: the count goes up, then ASSERT (deny_write_cnt <=
\* open_cnt).
inode_deny_write(st, id) ==
    [st EXCEPT !.ino[id].deny_write_cnt = @ + 1,
               !.panic = @ \/ st.ino[id].deny_write_cnt + 1 > st.ino[id].open_cnt]

\* An inode_allow_write that leaves the count as it is.
AllowWriteKeeps(st, id) ==
    IF st.ino[id].deny_write_cnt <= 0
          \/ st.ino[id].deny_write_cnt > st.ino[id].open_cnt
    THEN [st EXCEPT !.panic = TRUE]
    ELSE st

\* inode_allow_write: the two ASSERTs, then the count goes down.
inode_allow_write(st, id) ==
    IF st.ino[id].deny_write_cnt <= 0
          \/ st.ino[id].deny_write_cnt > st.ino[id].open_cnt
    THEN [st EXCEPT !.panic = TRUE]
    ELSE [st EXCEPT !.ino[id].deny_write_cnt = @ - 1]

Min(a, b) == IF a < b THEN a ELSE b

\* sector_ofs: the offset within the sector.
SectorOfs(offset) == offset % BLOCK_SECTOR_SIZE

\* chunk_size of inode_read_at and inode_write_at: the least of the bytes
\* asked for, the bytes left in the inode and the bytes left in the sector.
ChunkSize(di, size, offset) ==
    Min(size, Min(di.length - offset,
                  BLOCK_SECTOR_SIZE - SectorOfs(offset)))

\* The loop of inode_read_at; out is the caller's buffer filled so far.
RECURSIVE ReadLoop(_, _, _, _, _)
ReadLoop(st, di, size, offset, out) ==
    IF size <= 0 \/ ChunkSize(di, size, offset) <= 0
    THEN [st |-> st, bytes |-> out]
    ELSE Only({ ReadLoop(rd.st, di, size - ChunkSize(di, size, offset),
                         offset + ChunkSize(di, size, offset),
                         out \o [k \in 1 .. ChunkSize(di, size, offset) |->
                                    Cells(rd.data)[SectorOfs(offset)
                                                     + k - 1]])
                : rd \in {CacheReadS(st, byte_to_sector(st, di, offset))} })

\* inode_read_at: [st, bytes]; Len (bytes) is bytes_read.
inode_read_at(st, id, size, offset) ==
    ReadLoop(st, st.ino[id].data, size, offset, << >>)

\* The bounce buffer of inode_write_at before the chunk is copied into it:
\* the sector as cache_read returns it when the chunk leaves part of it
\* alone, zeros otherwise.  [st, data].
Bounce(st, sector_idx, sector_ofs, chunk_size) ==
    IF /\ ~(sector_ofs = 0 /\ chunk_size = BLOCK_SECTOR_SIZE)
       /\ (sector_ofs > 0 \/ chunk_size < BLOCK_SECTOR_SIZE - sector_ofs)
    THEN CacheReadS(st, sector_idx)
    ELSE [st |-> st, data |-> zeros]

\* The loop of inode_write_at; n is bytes_written.
RECURSIVE WriteLoop(_, _, _, _, _, _)
WriteLoop(st, di, buffer, size, offset, n) ==
    IF size <= 0 \/ ChunkSize(di, size, offset) <= 0
    THEN [st |-> st, n |-> n]
    ELSE Only({ WriteLoop(
                    CacheWriteS(rd.st, byte_to_sector(st, di, offset),
                        CellSector([j \in CellIds |->
                            IF /\ j >= SectorOfs(offset)
                               /\ j < SectorOfs(offset)
                                        + ChunkSize(di, size, offset)
                            THEN buffer[n + 1 + j - SectorOfs(offset)]
                            ELSE Cells(rd.data)[j]])),
                    di, buffer, size - ChunkSize(di, size, offset),
                    offset + ChunkSize(di, size, offset),
                    n + ChunkSize(di, size, offset))
                : rd \in {Bounce(st, byte_to_sector(st, di, offset),
                                 SectorOfs(offset),
                                 ChunkSize(di, size, offset))} })

\* A growth that sets the length to the end of every write.
WriteGrowAlways(st, id, end, g) ==
    inode_disk_grow(st, [st.ino[id].data EXCEPT !.length = end], g)

\* The growth of inode_write_at when the write ends past the end of the
\* file, as inode_disk_grow returns it.
WriteGrow(st, id, end, g) ==
    IF end > st.ino[id].data.length
    THEN inode_disk_grow(st, [st.ino[id].data EXCEPT !.length = end], g)
    ELSE [st |-> st, di |-> st.ino[id].data, got |-> {}, fails |-> 0,
          hang |-> FALSE]

\* An inode_write_at without the test of deny_write_cnt.
WriteIgnoringDeny(st, id, buffer, offset, g) ==
    Only({ IF gr.hang
           THEN [st |-> [gr.st EXCEPT !.ino[id].data = gr.di, !.hang = TRUE],
                 n |-> 0, got |-> gr.got, fails |-> gr.fails]
           ELSE Only({ [st |-> w.st, n |-> w.n, got |-> gr.got,
                        fails |-> gr.fails]
                       : w \in {WriteLoop([gr.st EXCEPT !.ino[id].data = gr.di],
                                          gr.di, buffer, Len(buffer),
                                          offset, 0)} })
           : gr \in {WriteGrow(st, id, offset + Len(buffer), g)} })

\* inode_write_at: [st, n, got, fails]; got and fails are those of the
\* growth.  A growth that does not return leaves st.hang set.
inode_write_at(st, id, buffer, offset, g) ==
    IF st.ino[id].deny_write_cnt # 0
    THEN [st |-> st, n |-> 0, got |-> {}, fails |-> 0]
    ELSE Only({ IF gr.hang
                THEN [st |-> [gr.st EXCEPT !.ino[id].data = gr.di, !.hang = TRUE],
                      n |-> 0, got |-> gr.got, fails |-> gr.fails]
                ELSE Only({ [st |-> w.st, n |-> w.n, got |-> gr.got,
                             fails |-> gr.fails]
                            : w \in {WriteLoop([gr.st EXCEPT !.ino[id].data = gr.di],
                                               gr.di, buffer, Len(buffer),
                                               offset, 0)} })
                : gr \in {WriteGrow(st, id, offset + Len(buffer), g)} })

\* inode_create: [st, success, got, fails].  success is always TRUE.
inode_create(st, sector, length, is_dir, g) ==
    Only({ IF gr.hang
           THEN [st |-> [gr.st EXCEPT !.hang = TRUE], success |-> FALSE,
                 got |-> gr.got, fails |-> gr.fails]
           ELSE [st |-> CacheWriteS(gr.st, sector, InodeSector(gr.di)),
                 success |-> TRUE, got |-> gr.got, fails |-> gr.fails]
           : gr \in {inode_disk_grow(st, NewInodeDisk(length, is_dir), g)} })

\* inode_set_parent.
inode_set_parent(st, parent, child) ==
    Only({ IF o.inode = NoInode THEN o.st
           ELSE inode_close([o.st EXCEPT !.ino[o.inode].data.parent = parent],
                            o.inode)
           : o \in {inode_open(st, child)} })
(***************************************************************************)
(* The directory layer (filesys/directory.c).  A struct dir_entry takes   *)
(* one cell; a struct dir is its inode (the position is kept where it is  *)
(* used, in the descriptor table).                                        *)
(***************************************************************************)
\* The file names of the model; "" is the empty string.
NameSeq == << "", ".", "..", "a", "d" >>
Names == {NameSeq[k] : k \in 1 .. Len(NameSeq)}
NameIdx(n) == (CHOOSE k \in 1 .. Len(NameSeq) : NameSeq[k] = n) - 1

\* NAME_MAX, scaled.
NAME_MAX == 2
\* A name of more than NAME_MAX characters.
TooLong == "toolong"
\* The characters of a file name.
Spell(n) ==
    CASE n = "." -> << ".">>
      [] n = ".." -> << ".", "." >>
      [] n = "a" -> << "a" >>
      [] n = "d" -> << "d" >>
      [] OTHER -> << >>
\* strlen (name).
NameLen(name) == IF name = TooLong THEN NAME_MAX + 1 ELSE Len(Spell(name))

\* sizeof (struct dir_entry), in cells.
EntrySize == 1
\* dir_create (ROOT_DIR_SECTOR, 100) in do_format, scaled.
RootEntries == 4

\* A struct dir_entry as the cell that holds it, and back.  A zeroed cell is
\* an entry that is not in use.
EncEntry(e) ==
    (e.inode_sector * Len(NameSeq) + NameIdx(e.name)) * 2
        + (IF e.in_use THEN 1 ELSE 0)
DecEntry(c) ==
    [in_use |-> c % 2 = 1,
     name |-> NameSeq[((c \div 2) % Len(NameSeq)) + 1],
     inode_sector |-> (c \div 2) \div Len(NameSeq)]

NoEntry == [in_use |-> FALSE, name |-> "", inode_sector |-> 0]

\* lookup: [st, found, e, ofs].
RECURSIVE LookupLoop(_, _, _, _)
LookupLoop(st, dir, name, ofs) ==
    Only({ IF Len(rd.bytes) # EntrySize
           THEN [st |-> rd.st, found |-> FALSE, e |-> NoEntry, ofs |-> ofs]
           ELSE IF DecEntry(rd.bytes[1]).in_use /\ DecEntry(rd.bytes[1]).name = name
           THEN [st |-> rd.st, found |-> TRUE, e |-> DecEntry(rd.bytes[1]),
                 ofs |-> ofs]
           ELSE LookupLoop(rd.st, dir, name, ofs + EntrySize)
           : rd \in {inode_read_at(st, dir, EntrySize, ofs)} })

lookup(st, dir, name) == LookupLoop(st, dir, name, 0)

\* dir_lookup: [st, inode]; it succeeds when inode is not NoInode.
dir_lookup(st, dir, name) ==
    Only({ IF l.found THEN inode_open(l.st, l.e.inode_sector)
           ELSE [st |-> l.st, inode |-> NoInode]
           : l \in {lookup(st, dir, name)} })

\* dir_open takes ownership of the inode; dir_close gives it back.
dir_open(st, inode) == [st |-> st, dir |-> inode]
dir_close(st, dir) == inode_close(st, dir)
dir_open_root(st) == inode_open(st, ROOT_DIR_SECTOR)
dir_reopen(st, dir) == [st |-> inode_reopen(st, dir), dir |-> dir]

\* The second loop of dir_add: the offset of the first entry not in use,
\* the end of the file when there is none.
RECURSIVE FreeSlot(_, _, _)
FreeSlot(st, dir, ofs) ==
    Only({ IF Len(rd.bytes) # EntrySize THEN [st |-> rd.st, ofs |-> ofs]
           ELSE IF ~DecEntry(rd.bytes[1]).in_use THEN [st |-> rd.st, ofs |-> ofs]
           ELSE FreeSlot(rd.st, dir, ofs + EntrySize)
           : rd \in {inode_read_at(st, dir, EntrySize, ofs)} })

\* inode_write_at of one struct dir_entry at ofs: [st, success].
WriteEntry(st, dir, e, ofs, g) ==
    Only({ [st |-> w.st, success |-> w.n = EntrySize]
           : w \in {inode_write_at(st, dir, << EncEntry(e) >>, ofs, g)} })

\* A dir_add that does not look the name up.
DirAddUnchecked(st, dir, name, inode_sector, g) ==
    IF name = "" \/ NameLen(name) > NAME_MAX THEN [st |-> st, success |-> FALSE]
    ELSE Only({ WriteEntry(f.st, dir,
                           [in_use |-> TRUE, name |-> name,
                            inode_sector |-> inode_sector],
                           f.ofs, g)
                : f \in {FreeSlot(st, dir, 0)} })

\* dir_add: [st, success].
dir_add(st, dir, name, inode_sector, g) ==
    IF name = "" \/ NameLen(name) > NAME_MAX THEN [st |-> st, success |-> FALSE]
    ELSE Only({ IF l.found THEN [st |-> l.st, success |-> FALSE]
                ELSE Only({ WriteEntry(f.st, dir,
                                       [in_use |-> TRUE, name |-> name,
                                        inode_sector |-> inode_sector],
                                       f.ofs, g)
                            : f \in {FreeSlot(l.st, dir, 0)} })
                : l \in {lookup(st, dir, name)} })

\* dir_remove once lookup has found the entry l: [st, success].
RemoveEntry(l, dir, g) ==
    Only({ IF o.inode = NoInode THEN [st |-> o.st, success |-> FALSE]
           ELSE Only({ [st |-> inode_close(IF w.success
                                           THEN inode_remove(w.st, o.inode)
                                           ELSE w.st,
                                           o.inode),
                        success |-> w.success]
                       : w \in {WriteEntry(o.st, dir,
                                           [l.e EXCEPT !.in_use = FALSE],
                                           l.ofs, g)} })
           : o \in {inode_open(l.st, l.e.inode_sector)} })

\* dir_remove: [st, success].
dir_remove(st, dir, name, g) ==
    Only({ IF ~l.found THEN [st |-> l.st, success |-> FALSE]
           ELSE RemoveEntry(l, dir, g)
           : l \in {lookup(st, dir, name)} })

\* dir_readdir (dir, name) for dir = [inode, pos]: [st, dir, ok, name]; the
\* loop goes on from dir.pos to the first entry in use.
RECURSIVE dir_readdir(_, _)
dir_readdir(st, dir) ==
    Only({ IF Len(rd.bytes) # EntrySize
           THEN [st |-> rd.st, dir |-> dir, ok |-> FALSE, name |-> ""]
           ELSE IF DecEntry(rd.bytes[1]).in_use
           THEN [st |-> rd.st, dir |-> [dir EXCEPT !.pos = @ + EntrySize],
                 ok |-> TRUE, name |-> DecEntry(rd.bytes[1]).name]
           ELSE dir_readdir(rd.st, [dir EXCEPT !.pos = @ + EntrySize])
           : rd \in {inode_read_at(st, dir.inode, EntrySize, dir.pos)} })

\* struct dir as dir_open (inode) leaves it: pos is past two entries.
DirHandle(inode) == [inode |-> inode, pos |-> 2 * EntrySize]

\* dir_is_empty: [st, empty].
RECURSIVE EmptyLoop(_, _, _)
EmptyLoop(st, dir, cur_pos) ==
    Only({ IF Len(rd.bytes) # EntrySize THEN [st |-> rd.st, empty |-> TRUE]
           ELSE IF /\ DecEntry(rd.bytes[1]).in_use
                   /\ DecEntry(rd.bytes[1]).name # "."
                   /\ DecEntry(rd.bytes[1]).name # ".."
           THEN [st |-> rd.st, empty |-> FALSE]
           ELSE EmptyLoop(rd.st, dir, cur_pos + EntrySize)
           : rd \in {inode_read_at(st, dir, EntrySize, cur_pos)} })

dir_is_empty(st, dir) == EmptyLoop(st, dir, 0)
(***************************************************************************)
(* filesys_init (true): the free map with sectors 0 and 1 in use, the     *)
(* root directory created by do_format, opened as the first thread's      *)
(* working directory, with its "." and ".." entries.                      *)
(***************************************************************************)
EmptyFsLine == [EmptyLine EXCEPT !.disk_data = zeros]

\* The values an uninitialised stack array may hold.
GarbageVals == {0, FsSectors - 1}

FreshStorage ==
    [disk |-> [s \in FsSectorIds |-> zeros],
     cache |-> [i \in LineIds |-> EmptyFsLine],
     ticks |-> 0, rab |-> << >>,
     fmap |-> {FREE_MAP_SECTOR, ROOT_DIR_SECTOR},
     ino |-> [i \in InodeIds |-> BlankInode], open |-> << >>,
     direct |-> {}, behind |-> {}, rel |-> << >>,
     panic |-> FALSE, hang |-> FALSE]

\* The "." and ".." entries of a new directory dir whose parent is at
\* sector parent: the storage after the two dir_add calls.
AddDots(st, dir, self, parent) ==
    Only({ dir_add(a1.st, dir, "..", parent, 0).st
           : a1 \in {dir_add(st, dir, ".", self, 0)} })

filesys_init ==
    Only({ Only({ AddDots(root.st, root.inode, ROOT_DIR_SECTOR, ROOT_DIR_SECTOR)
                  : root \in {dir_open_root(c.st)} })
           : c \in {inode_create(FreshStorage, ROOT_DIR_SECTOR,
                                 RootEntries * EntrySize, TRUE, 0)} })
\* choose_evict compares line times with each other and with the current
\* tick only: the times are kept as ranks, below the tick.
NormTimes(c) ==
    [i \in LineIds |->
        [c[i] EXCEPT !.time =
            IF c[i].valid
            THEN Cardinality({c[j].time : j \in {k \in LineIds :
                                c[k].valid /\ c[k].time < c[i].time}})
            ELSE 0]]

\* The storage and the inode layer as the value a call starts from, and
\* the state a call leaves.
Load ==
    [disk |-> disk, cache |-> cache, ticks |-> ticks, rab |-> read_head_buffer,
     fmap |-> free_map, ino |-> inodes, open |-> open_inodes,
     direct |-> {}, behind |-> {}, rel |-> << >>,
     panic |-> FALSE, hang |-> FALSE]

Store(st) ==
    /\ disk' = st.disk
    /\ cache' = NormTimes(st.cache)
    /\ ticks' = CACHE_SIZE
    /\ read_head_buffer' = st.rab
    /\ free_map' = st.fmap
    /\ inodes' = st.ino
    /\ open_inodes' = st.open
    /\ panic' = st.panic
    /\ hung' = st.hang

\* The state that holds the storage st.
Holds(st) ==
    /\ disk = st.disk
    /\ cache = NormTimes(st.cache)
    /\ ticks = CACHE_SIZE
    /\ read_head_buffer = st.rab
    /\ free_map = st.fmap
    /\ inodes = st.ino
    /\ open_inodes = st.open
    /\ panic = FALSE
    /\ hung = FALSE

\* The state right after filesys_init.
Mounted == Holds(filesys_init)
(***************************************************************************)
(* The file system calls (filesys/filesys.c) and find_dir (directory.c).   *)
(* A path is [abs, toks, slash, junk]: whether it starts with '/', its      *)
(* components, whether name_[strlen (name_) - 1] is '/', and what the       *)
(* caller's uninitialised last_name buffer holds.                           *)
(* cur is the caller's thread_current ()->cur_dir.                         *)
(***************************************************************************)
\* A path of components, with no trailing '/'.
Path(abs, toks) == [abs |-> abs, toks |-> toks, slash |-> FALSE, junk |-> ""]

\* PATH_MAX, scaled.
PATH_MAX == 9

\* A path name is a sequence of characters.  strlcpy (temp_name, name_,
\* PATH_MAX + 1) keeps its first PATH_MAX characters.
Truncate(s) == SubSeq(s, 1, IF Len(s) < PATH_MAX THEN Len(s) ELSE PATH_MAX)

\* The flag loops of find_dir: a '/' that follows a '/' is dropped.
RECURSIVE Collapse(_, _)
Collapse(s, i) ==
    IF i > Len(s) THEN << >>
    ELSE (IF i > 1 /\ s[i - 1] = "/" /\ s[i] = "/" THEN << >> ELSE << s[i] >>)
            \o Collapse(s, i + 1)

\* strtok_r (name, "/", &save_ptr): the non-empty runs between '/'.
RECURSIVE Tokens(_, _, _)
Tokens(s, i, tok) ==
    IF i > Len(s) THEN (IF tok = << >> THEN << >> ELSE << tok >>)
    ELSE IF s[i] = "/"
    THEN (IF tok = << >> THEN << >> ELSE << tok >>) \o Tokens(s, i + 1, << >>)
    ELSE Tokens(s, i + 1, Append(tok, s[i]))

\* The name a token spells.
TokenName(t) ==
    IF Len(t) > NAME_MAX THEN TooLong
    ELSE CHOOSE n \in {"", ".", "..", "a", "d"} : Spell(n) = t

\* find_dir up to its strtok_r loop: the path a name stands for.  u holds
\* the outcomes of undefined reads: u.neg1, whether name_[-1] of an empty
\* name is '/', and u.junk, the contents of the last_name buffer.
ParsePath(s, u) ==
    [abs |-> Collapse(Truncate(s), 1) # << >> /\ Collapse(Truncate(s), 1)[1] = "/",
     toks |-> [k \in 1 .. Len(Tokens(Collapse(Truncate(s), 1), 1, << >>)) |->
                 TokenName(Tokens(Collapse(Truncate(s), 1), 1, << >>)[k])],
     slash |-> IF s = << >> THEN u.neg1 ELSE s[Len(s)] = "/",
     junk |-> u.junk]

inode_isdir(st, inode) == st.ino[inode].data.is_dir
inode_get_sector(st, inode) == st.ino[inode].sector

\* The strtok_r loop of find_dir.  dir is the directory being walked
\* (NoInode once a component was not found), inode is *inode.
RECURSIVE FindLoop(_, _, _, _, _, _)
FindLoop(st, dir, inode, toks, k, last_name) ==
    IF k > Len(toks)
    THEN [st |-> dir_close(st, dir), ok |-> TRUE, inode |-> inode,
          last_name |-> last_name]
    ELSE IF dir = NoInode \/ toks[k] = TooLong
    THEN [st |-> st, ok |-> FALSE, inode |-> inode, last_name |-> last_name]
    ELSE Only({ FindLoop(dir_close(lk.st, dir), lk.inode, dir, toks, k + 1,
                         toks[k])
                : lk \in {dir_lookup(inode_reopen(inode_close(st, inode), dir),
                                     dir, toks[k])} })

\* A find_dir that ends with last_name "." for every name.
FindEndDot(f, path) == IF f.ok THEN [f EXCEPT !.last_name = "."] ELSE f

\* The end of find_dir: a name that ends in '/' gets last_name ".".
FindEnd(f, path) ==
    IF f.ok /\ path.slash THEN [f EXCEPT !.last_name = "."] ELSE f

\* find_dir: [st, ok, inode, last_name].  A null dir from dir_open_root is
\* dereferenced by dir_get_inode.
find_dir(st, cur, path) ==
    Only({ IF o.inode = NoInode
           THEN [st |-> [o.st EXCEPT !.panic = TRUE], ok |-> FALSE,
                 inode |-> NoInode, last_name |-> ""]
           ELSE FindEnd(FindLoop(inode_reopen(o.st, o.inode), o.inode, o.inode,
                                 path.toks, 1, path.junk),
                        path)
           : o \in {IF path.abs THEN dir_open_root(st)
                    ELSE [st |-> inode_reopen(st, cur), inode |-> cur]} })

\* inode_create (...) && dir_add (...) once free_map_allocate has handed
\* out sector s: [st, success].
CreateAt(st, dir, name, s, initial_size, is_dir, g) ==
    Only({ IF c.success THEN dir_add(c.st, dir, name, s, g)
           ELSE [st |-> c.st, success |-> FALSE]
           : c \in {inode_create(st, s, initial_size, is_dir, g)} })

\* free_map_allocate (1, &inode_sector) && inode_create (...) && dir_add (...)
\* of filesys_create and filesys_mkdir, and the free_map_release that
\* follows a failure: [st, success, sector].
CreateIn(st, dir, name, initial_size, is_dir, g) ==
    IF FirstFree(st.fmap) = NoSector
    THEN [st |-> st, success |-> FALSE, sector |-> 0]
    ELSE Only({ [st |-> IF a.success THEN a.st
                        ELSE [a.st EXCEPT !.fmap = @ \ {FirstFree(st.fmap)}],
                 success |-> a.success, sector |-> FirstFree(st.fmap)]
                : a \in {CreateAt([st EXCEPT !.fmap = @ \cup {FirstFree(st.fmap)}],
                                  dir, name, FirstFree(st.fmap), initial_size,
                                  is_dir, g)} })

\* filesys_create: [st, success].
filesys_create(st, cur, path, initial_size, g) ==
    Only({ IF ~fd.ok THEN [st |-> fd.st, success |-> FALSE]
           ELSE Only({ [st |-> dir_close(c.st, fd.inode), success |-> c.success]
                       : c \in {CreateIn(fd.st, fd.inode, fd.last_name,
                                         initial_size, FALSE, g)} })
           : fd \in {find_dir(st, cur, path)} })

\* filesys_open: [st, file]; file is the inode the new struct file or
\* struct dir wraps, NoInode for a null pointer.
filesys_open(st, cur, path) ==
    Only({ IF ~fd.ok THEN [st |-> fd.st, file |-> NoInode]
           ELSE Only({ [st |-> dir_close(lk.st, fd.inode), file |-> lk.inode]
                       : lk \in {dir_lookup(fd.st, fd.inode, fd.last_name)} })
           : fd \in {find_dir(st, cur, path)} })

\* The loop of filesys_remove over thread_current ()->files: some open
\* directory of the caller has the sector of the caller's cur_dir.
DenyRemove(st, cur, files) ==
    \E k \in 1 .. Len(files) :
        /\ inode_isdir(st, files[k].file)
        /\ inode_get_sector(st, files[k].file) = inode_get_sector(st, cur)

\* filesys_remove of a directory dir_new, once dir_is_empty has returned e:
\* the storage before the two dir_close calls, and the result.
RemoveDir(e, fd, cur, files, g) ==
    IF e.empty /\ ~DenyRemove(e.st, cur, files)
    THEN [st |-> dir_remove(e.st, fd.inode, fd.last_name, g).st,
          success |-> TRUE]
    ELSE [st |-> e.st, success |-> FALSE]

\* filesys_remove once dir_lookup has returned lk: [st, success].
\* inode_new is closed only on the paths that open it as a directory.
RemoveFound(lk, fd, cur, files, g) ==
    IF lk.inode # NoInode /\ inode_isdir(lk.st, lk.inode)
    THEN Only({ [st |-> dir_close(dir_close(r.st, lk.inode), fd.inode),
                 success |-> r.success]
                : r \in {RemoveDir(dir_is_empty(lk.st, lk.inode), fd, cur,
                                   files, g)} })
    ELSE Only({ [st |-> dir_close(r.st, fd.inode), success |-> r.success]
                : r \in {dir_remove(lk.st, fd.inode, fd.last_name, g)} })

\* filesys_remove: [st, success].
filesys_remove(st, cur, files, path, g) ==
    Only({ IF ~fd.ok THEN [st |-> fd.st, success |-> FALSE]
           ELSE RemoveFound(dir_lookup(fd.st, fd.inode, fd.last_name), fd, cur,
                            files, g)
           : fd \in {find_dir(st, cur, path)} })

\* The initialisation of a new directory in filesys_mkdir: ".", "..", the
\* parent.  dir_add on a null dir_new fails its assertion.
MkdirInit(lk, inode) ==
    IF lk.inode = NoInode THEN [lk.st EXCEPT !.panic = TRUE]
    ELSE Only({ dir_close(inode_set_parent(st2, inode_get_sector(st2, inode),
                                           inode_get_sector(st2, lk.inode)),
                          lk.inode)
                : st2 \in {AddDots(lk.st, lk.inode,
                                   inode_get_sector(lk.st, lk.inode),
                                   inode_get_sector(lk.st, inode))} })

\* filesys_mkdir: [st, success].
filesys_mkdir(st, cur, path, initial_size, g) ==
    Only({ IF ~fd.ok \/ fd.last_name = "" THEN [st |-> fd.st, success |-> FALSE]
           ELSE Only({ [st |-> dir_close(
                                 IF c.success
                                 THEN MkdirInit(dir_lookup(c.st, fd.inode,
                                                           fd.last_name),
                                                fd.inode)
                                 ELSE c.st,
                                 fd.inode),
                        success |-> c.success]
                       : c \in {CreateIn(fd.st, fd.inode, fd.last_name,
                                         initial_size, TRUE, g)} })
           : fd \in {find_dir(st, cur, path)} })

\* filesys_chdir up to the scan of open_inodes in the inode_open of its own
\* dir_lookup: [st, found, dir, sector].
ChdirLookup(st, cur, path) ==
    Only({ IF ~fd.ok
           THEN [st |-> fd.st, found |-> FALSE, dir |-> NoInode, sector |-> 0]
           ELSE Only({ IF l.found
                       THEN [st |-> l.st, found |-> TRUE, dir |-> fd.inode,
                             sector |-> l.e.inode_sector]
                       ELSE [st |-> dir_close(l.st, fd.inode), found |-> FALSE,
                             dir |-> NoInode, sector |-> 0]
                       : l \in {lookup(fd.st, fd.inode, fd.last_name)} })
           : fd \in {find_dir(st, cur, path)} })

\* The rest of filesys_chdir once that inode_open has returned o:
\* [st, cur_dir, success].  An inode_new that is not a directory stays open.
ChdirRest(o, dir, cur) ==
    Only({ IF o.inode # NoInode /\ inode_isdir(st1, o.inode)
           THEN [st |-> dir_close(st1, cur), cur_dir |-> o.inode,
                 success |-> TRUE]
           ELSE [st |-> st1, cur_dir |-> cur, success |-> FALSE]
           : st1 \in {dir_close(o.st, dir)} })
(***************************************************************************)
(* SpecInode: a client of the inode layer that creates, opens, writes,    *)
(* reads, removes and closes files, one call at a time, with the          *)
(* read-ahead consumer and the flusher running between the calls.         *)
(***************************************************************************)
MaxFiles == 2
\* Reads and writes start at offsets 0..MaxPos and move one byte.
MaxPos == 4
\* A write stores one value of 1..MaxByte.
MaxByte == 1
\* The client makes at most MaxOps reads and writes.
MaxOps == 2

FileIds == 1 .. MaxFiles
Positions == 0 .. MaxPos
\* File sizes at creation: empty, or all the direct blocks.
CreateLens == {0, DIRECT_BLOCKS * BLOCK_SECTOR_SIZE}

\* A file of the client: at "none" it is not created yet, then "created",
\* "open", and "closed" after the client's inode_close.
NoFile ==
    [at |-> "none", sector |-> NoSector, inode |-> NoInode, length |-> 0,
     owned |-> {}, written |-> [q \in Positions |-> NoVal]]

NoRes == [op |-> "none", behind |-> {}, direct |-> {}, hang |-> FALSE]

InitInode ==
    /\ Mounted
    /\ hf = [f \in FileIds |-> NoFile]
    /\ res = NoRes
    /\ ops = 0
    /\ starved = FALSE
    /\ threads = << >>
    /\ read_head_lock = "free"
    /\ task = << >>
    /\ calls = 0
    /\ lastWritten = << >>
    /\ lastRead = NoRead
    /\ flushSnap = {}

\* The kernel is up and no call is stuck.
Alive == ~panic /\ ~hung
\* A call may start: the read-ahead thread, woken by cond_signal, has
\* emptied its buffer.
Ready == Alive /\ read_head_buffer = << >>

\* The ghost record of a call: which sectors it wrote on the device past
\* the cache, which of them had a dirty line in the cache, and whether the
\* call is stuck in a loop.
Done(op, st) ==
    [op |-> op, behind |-> st.behind, direct |-> st.direct, hang |-> st.hang]

\* free_map_allocate (1, &sector) and inode_create (sector, len, false), as
\* filesys_create calls them.
ICreate(f, len, g) ==
    /\ Ready
    /\ hf[f].at = "none"
    /\ \A e \in 1 .. (f - 1) : hf[e].at # "none"
    /\ \E s \in {FirstFree(free_map)} :
          IF s = NoSector
          THEN /\ res' = NoRes
               /\ starved' = TRUE
               /\ UNCHANGED <<cache, disk, ticks, read_head_buffer, panic,
                              inodeVars, hf>>
          ELSE \E c \in {inode_create([Load EXCEPT !.fmap = @ \cup {s}], s,
                                      len, FALSE, g)} :
                  /\ Store(c.st)
                  /\ hf' = [hf EXCEPT ![f] =
                              [NoFile EXCEPT !.at = "created", !.sector = s,
                                             !.length = len,
                                             !.owned = c.got \cup {s}]]
                  /\ res' = Done("create", c.st) @@
                              [success |-> c.success, fails |-> c.fails,
                               before |-> free_map]
                  /\ starved' = (starved \/ c.fails > 0)
    /\ UNCHANGED <<ops, taskVars, threads>>

\* inode_open of a created file.
IOpen(f) ==
    /\ Ready
    /\ hf[f].at = "created"
    /\ \E o \in {inode_open(Load, hf[f].sector)} :
          /\ Store(o.st)
          /\ hf' = [hf EXCEPT ![f].inode = o.inode, ![f].at = "open"]
          /\ res' = Done("open", o.st)
    /\ UNCHANGED <<ops, starved, taskVars, threads>>

\* inode_remove.
IRemove(f) ==
    /\ Ready
    /\ hf[f].at = "open"
    /\ ~inodes[hf[f].inode].removed
    /\ Store(inode_remove(Load, hf[f].inode))
    /\ res' = NoRes
    /\ UNCHANGED <<hf, ops, starved, taskVars, threads>>

\* inode_close of the client's reference.
IClose(f) ==
    /\ Ready
    /\ hf[f].at = "open"
    /\ \E st \in {inode_close(Load, hf[f].inode)} :
          /\ Store(st)
          /\ hf' = [hf EXCEPT ![f] = [NoFile EXCEPT !.at = "closed"]]
          /\ res' = Done("close", st) @@
                      [removed |-> inodes[hf[f].inode].removed, rel |-> st.rel,
                       owned |-> hf[f].owned]
    /\ UNCHANGED <<ops, starved, taskVars, threads>>

\* inode_write_at (inode, &v, 1, offset).
IWrite(f, offset, v, g) ==
    /\ Ready
    /\ hf[f].at = "open"
    /\ ops < MaxOps
    /\ ops' = ops + 1
    /\ \E w \in {inode_write_at(Load, hf[f].inode, << v >>, offset, g)} :
          /\ Store(w.st)
          /\ hf' = [hf EXCEPT
                      ![f].length = IF offset + 1 > @ THEN offset + 1 ELSE @,
                      ![f].owned = @ \cup w.got,
                      ![f].written = [q \in Positions |->
                                        IF q = offset /\ w.n = 1 THEN v
                                        ELSE @[q]]]
          /\ res' = Done("write", w.st) @@
                      [n |-> w.n, fails |-> w.fails, before |-> free_map]
          /\ starved' = (starved \/ w.fails > 0)
    /\ UNCHANGED <<taskVars, threads>>

\* inode_read_at (inode, buffer, 1, offset).
IRead(f, offset) ==
    /\ Ready
    /\ hf[f].at = "open"
    /\ ops < MaxOps
    /\ ops' = ops + 1
    /\ \E r \in {inode_read_at(Load, hf[f].inode, 1, offset)} :
          /\ Store(r.st)
          /\ res' = Done("read", r.st) @@
                      [bytes |-> r.bytes, inside |-> offset < hf[f].length,
                       expect |-> hf[f].written[offset]]
    /\ UNCHANGED <<hf, starved, taskVars, threads>>

\* The read-ahead thread consumes one request.
IReadAhead ==
    /\ Alive
    /\ Len(read_head_buffer) > 0
    /\ Store(RaConsume(Load))
    /\ UNCHANGED <<clientVars, taskVars, threads>>

\* The flusher thread runs flush_cache.
IFlush ==
    /\ Alive
    /\ \E i \in LineIds : cache[i].dirty
    /\ Store(FlushS(Load))
    /\ UNCHANGED <<clientVars, taskVars, threads>>

NextInode ==
    \/ \E f \in FileIds, len \in CreateLens, g \in GarbageVals : ICreate(f, len, g)
    \/ \E f \in FileIds : IOpen(f)
    \/ \E f \in FileIds : IRemove(f)
    \/ \E f \in FileIds : IClose(f)
    \/ \E f \in FileIds, offset \in Positions, v \in 1 .. MaxByte,
          g \in GarbageVals : IWrite(f, offset, v, g)
    \/ \E f \in FileIds, offset \in Positions : IRead(f, offset)
    \/ IReadAhead
    \/ IFlush

SpecInode == InitInode /\ [][NextInode]_vars

(***************************************************************************)
(* SpecGrow: the same client with files of every size the index tree can  *)
(* hold (and one sector more), created at that size or extended by        *)
(* writes at the start of a sector.                                       *)
(***************************************************************************)
GrowLens == {n * BLOCK_SECTOR_SIZE : n \in 0 .. (MaxFileSectors + 1)}
GrowPositions == {n * BLOCK_SECTOR_SIZE : n \in 0 .. (MaxFileSectors - 1)}
\* One file at a time.
GrowFiles == {1}

NextGrow ==
    \/ \E f \in GrowFiles, len \in GrowLens, g \in GarbageVals : ICreate(f, len, g)
    \/ \E f \in GrowFiles : IOpen(f)
    \/ \E f \in GrowFiles : IRemove(f)
    \/ \E f \in GrowFiles : IClose(f)
    \/ \E f \in GrowFiles, offset \in GrowPositions, v \in 1 .. MaxByte,
          g \in GarbageVals : IWrite(f, offset, v, g)
    \/ IReadAhead
    \/ IFlush

SpecGrow == InitInode /\ [][NextGrow]_vars

(***************************************************************************)
(* SpecFs: processes making file system calls (userprog/syscall.c).  The  *)
(* calls made under my_lock run one at a time; SYS_CHDIR takes no lock,    *)
(* and a process inside it can be preempted between the scan of            *)
(* open_inodes and list_push_front in inode_open.                          *)
(***************************************************************************)
NumProcs == 2
\* The processes make at most MaxSys calls.
MaxSys == 4
Procs == 1 .. NumProcs
FsPaths == {Path(TRUE, << "a" >>), Path(TRUE, << "d" >>), Path(FALSE, << "a" >>)}
\* initial_size of SYS_CREATE in the model: one sector.
CreateSize == BLOCK_SECTOR_SIZE

\* struct thread: cur_dir, files (struct my_file_struct: fd, file), fd; at
\* is where the process is, sector and dir are the locals of a chdir that
\* was preempted.
NewThread(root) ==
    [cur_dir |-> root, files |-> << >>, fd |-> 2, at |-> "run",
     sector |-> 0, dir |-> NoInode]

\* Every process starts with a handle of its own on the root directory.
RECURSIVE Spawn(_, _)
Spawn(st, n) ==
    IF n = 0 THEN st ELSE Spawn(inode_reopen(st, st.open[1]), n - 1)

InitFs ==
    /\ Holds(Spawn(filesys_init, NumProcs - 1))
    /\ threads = [p \in Procs |-> NewThread(open_inodes[1])]
    /\ hf = << >>
    /\ res = NoRes
    /\ ops = 0
    /\ starved = FALSE
    /\ read_head_lock = "free"
    /\ task = << >>
    /\ calls = 0
    /\ lastWritten = << >>
    /\ lastRead = NoRead
    /\ flushSnap = {}

\* A process that can start a call.
CanCall(p) == Ready /\ threads[p].at = "run" /\ ops < MaxSys

\* Ghost: the sector a path names for the caller and whether it is a
\* directory; NoSector when the path names nothing.
Target(st, cur, path) ==
    Only({ IF o.file = NoInode THEN [sector |-> NoSector, is_dir |-> FALSE]
           ELSE [sector |-> inode_get_sector(o.st, o.file),
                 is_dir |-> inode_isdir(o.st, o.file)]
           : o \in {filesys_open(st, cur, path)} })

\* Ghost: the path still names the sector and no inode of the sector is
\* marked removed.
StillThere(st, cur, path, sector) ==
    /\ Target(st, cur, path).sector = sector
    /\ \A i \in InodeIds :
          (st.ino[i].live /\ st.ino[i].sector = sector) => ~st.ino[i].removed

\* Ghost: some running process has sector open or as its working directory.
InUse(sector) ==
    \E q \in Procs :
        /\ threads[q].at # "exited"
        /\ \/ inodes[threads[q].cur_dir].sector = sector
           \/ \E k \in 1 .. Len(threads[q].files) :
                 inodes[threads[q].files[k].file].sector = sector

\* Ghost: a handle other than fd of p is open on the sector.
OtherHandle(p, fd, sector) ==
    \E q \in Procs :
        \E k \in 1 .. Len(threads[q].files) :
            /\ q # p \/ threads[q].files[k].fd # fd
            /\ inodes[threads[q].files[k].file].sector = sector

\* Ghost: the inode sector and the data sectors of a file of direct blocks.
Held(ino) ==
    {ino.sector} \cup {ino.data.blocks[k] : k \in 0 .. (ino.data.direct_usage - 1)}

\* Ghost: the list open_inodes or the open_cnt of an inode differs between
\* the storage before and after a step.
Reopened(pre, post) ==
    \/ post.open # pre.open
    \/ \E i \in InodeIds : post.ino[i].open_cnt # pre.ino[i].open_cnt
\* Ghost: the lock the process holds during a step ("my_lock" between
\* acquire_l and release_l of syscall_handler, "none" where the handler
\* takes none, "caller" where it is up to a caller outside these files),
\* and whether the step changed the open inodes.
LockGhost(lock, pre, post) == [lock |-> lock, opens |-> Reopened(pre, post)]

SysCreate(p, path) ==
    /\ CanCall(p)
    /\ \E c \in {filesys_create(Load, threads[p].cur_dir, path, CreateSize, 0)} :
          /\ Store(c.st)
          /\ res' = [op |-> "create", success |-> c.success]
                    @@ LockGhost("my_lock", Load, c.st)
    /\ ops' = ops + 1
    /\ UNCHANGED <<threads, hf, starved, taskVars>>

SysMkdir(p, path) ==
    /\ CanCall(p)
    /\ \E c \in {filesys_mkdir(Load, threads[p].cur_dir, path, 0, 0)} :
          /\ Store(c.st)
          /\ res' = [op |-> "mkdir", success |-> c.success]
                    @@ LockGhost("my_lock", Load, c.st)
    /\ ops' = ops + 1
    /\ UNCHANGED <<threads, hf, starved, taskVars>>

SysOpen(p, path) ==
    /\ CanCall(p)
    /\ \E o \in {filesys_open(Load, threads[p].cur_dir, path)} :
          /\ Store(o.st)
          /\ threads' =
                IF o.file = NoInode THEN threads
                ELSE [threads EXCEPT
                        ![p].files = Append(@, [fd |-> threads[p].fd,
                                                file |-> o.file]),
                        ![p].fd = @ + 1]
          /\ res' = [op |-> "open", success |-> o.file # NoInode]
                    @@ LockGhost("my_lock", Load, o.st)
    /\ ops' = ops + 1
    /\ UNCHANGED <<hf, starved, taskVars>>

\* SYS_CLOSE: file_close closes the inode of the file.
SysClose(p, k) ==
    /\ CanCall(p)
    /\ \E f \in {threads[p].files[k]} :
          /\ \E st \in {inode_close(Load, f.file)} :
                /\ Store(st)
                /\ res' = [op |-> "close",
                           removed |-> inodes[f.file].removed,
                           is_dir |-> inodes[f.file].data.is_dir,
                           last |-> ~OtherHandle(p, f.fd, inodes[f.file].sector),
                           held |-> Held(inodes[f.file]),
                           busy |-> st.fmap]
                          @@ LockGhost("my_lock", Load, st)
          /\ threads' = [threads EXCEPT ![p].files =
                            SelectSeq(@, LAMBDA x : x.fd # f.fd)]
    /\ ops' = ops + 1
    /\ UNCHANGED <<hf, starved, taskVars>>

SysRemove(p, path) ==
    /\ CanCall(p)
    /\ \E t \in {Target(Load, threads[p].cur_dir, path)} :
       \E r \in {filesys_remove(Load, threads[p].cur_dir, threads[p].files,
                                path, 0)} :
          /\ Store(r.st)
          /\ res' = [op |-> "remove", success |-> r.success,
                     is_dir |-> t.is_dir,
                     in_use |-> t.sector # NoSector /\ InUse(t.sector),
                     kept |-> StillThere(r.st, threads[p].cur_dir, path, t.sector)]
                    @@ LockGhost("my_lock", Load, r.st)
    /\ ops' = ops + 1
    /\ UNCHANGED <<threads, hf, starved, taskVars>>

\* SYS_CHDIR, from its start either to its end or to the point where the
\* scan of open_inodes has found no inode of the sector.
SysChdir(p, path) ==
    /\ CanCall(p)
    /\ \E c \in {ChdirLookup(Load, threads[p].cur_dir, path)} :
          IF c.found /\ OpenIdx(c.st, c.sector) = 0
          THEN /\ Store(c.st)
               /\ threads' = [threads EXCEPT ![p].at = "push",
                                             ![p].sector = c.sector,
                                             ![p].dir = c.dir]
               /\ res' = [op |-> "scan"] @@ LockGhost("none", Load, c.st)
          ELSE \E r \in {IF c.found
                         THEN ChdirRest(inode_open(c.st, c.sector), c.dir,
                                        threads[p].cur_dir)
                         ELSE [st |-> c.st, cur_dir |-> threads[p].cur_dir,
                               success |-> FALSE]} :
                  /\ Store(r.st)
                  /\ threads' = [threads EXCEPT ![p].cur_dir = r.cur_dir]
                  /\ res' = [op |-> "chdir", success |-> r.success]
                            @@ LockGhost("none", Load, r.st)
    /\ ops' = ops + 1
    /\ UNCHANGED <<hf, starved, taskVars>>

\* The preempted SYS_CHDIR goes on: list_push_front and the rest.
ChdirPush(p) ==
    /\ Ready
    /\ threads[p].at = "push"
    /\ \E r \in {ChdirRest(InodeOpenNew(Load, threads[p].sector),
                           threads[p].dir, threads[p].cur_dir)} :
          /\ Store(r.st)
          /\ threads' = [threads EXCEPT ![p].cur_dir = r.cur_dir,
                                        ![p].at = "run",
                                        ![p].sector = 0, ![p].dir = NoInode]
          /\ res' = [op |-> "chdir", success |-> r.success]
                    @@ LockGhost("none", Load, r.st)
    /\ UNCHANGED <<ops, hf, starved, taskVars>>

\* close_all_files: the files are closed from the back of the list.
RECURSIVE CloseAll(_, _)
CloseAll(st, files) ==
    IF files = << >> THEN st
    ELSE CloseAll(inode_close(st, files[Len(files)].file),
                  SubSeq(files, 1, Len(files) - 1))

\* The process exits.
SysExit(p) ==
    /\ CanCall(p)
    /\ \E st \in {CloseAll(Load, threads[p].files)} :
          /\ Store(st)
          /\ res' = [op |-> "exit"] @@ LockGhost("caller", Load, st)
    /\ threads' = [threads EXCEPT ![p].files = << >>, ![p].at = "exited"]
    /\ ops' = ops + 1
    /\ UNCHANGED <<hf, starved, taskVars>>

\* The read-ahead thread consumes one request.
FsReadAhead ==
    /\ Alive
    /\ Len(read_head_buffer) > 0
    /\ Store(RaConsume(Load))
    /\ UNCHANGED <<clientVars, threads, taskVars>>

NextFs ==
    \/ \E p \in DOMAIN threads : \E path \in FsPaths : SysCreate(p, path)
    \/ \E p \in DOMAIN threads : \E path \in FsPaths : SysMkdir(p, path)
    \/ \E p \in DOMAIN threads : \E path \in FsPaths : SysOpen(p, path)
    \/ \E p \in DOMAIN threads : \E k \in DOMAIN threads[p].files :
          SysClose(p, k)
    \/ \E p \in DOMAIN threads : \E path \in FsPaths : SysRemove(p, path)
    \/ \E p \in DOMAIN threads : \E path \in FsPaths : SysChdir(p, path)
    \/ \E p \in DOMAIN threads : ChdirPush(p)
    \/ \E p \in DOMAIN threads : SysExit(p)
    \/ FsReadAhead

SpecFs == InitFs /\ [][NextFs]_vars

(***************************************************************************)
(* SpecPath: one process that calls find_dir and the path-taking file      *)
(* system calls with path names given as character sequences.              *)
(***************************************************************************)
\* The process makes at most MaxPathOps calls.
MaxPathOps == 3

\* The path names of the model.
PathStrs ==
    {<< >>,
     << "/", "a" >>,
     << "." >>,
     << "a", "/", "/", "d" >>,
     << "/", "a", "/", "/", "d", "/" >>,
     << "/", "/", "a", "/", "/", "/", "d", "/", "." >>,
     << "/", "a", "a", "a", "a" >>,
     << "/", "d", "/", "/", "/", "/", "/", "/", "/", "/", "a" >>}

\* The outcomes of the undefined reads find_dir makes for a name: of
\* name_[-1] when the name is empty, and of the uninitialised last_name
\* buffer when the name has no component.
Undefs(s) ==
    IF s = << >> THEN [neg1 : BOOLEAN, junk : {"", "a"}]
    ELSE {[neg1 |-> FALSE, junk |-> ""]}

\* Ghost: the entries of the directory open as dir, in file order.
RECURSIVE EntriesFrom(_, _, _)
EntriesFrom(st, dir, ofs) ==
    Only({ IF Len(rd.bytes) # EntrySize THEN << >>
           ELSE << DecEntry(rd.bytes[1]) >>
                    \o EntriesFrom(rd.st, dir, ofs + EntrySize)
           : rd \in {inode_read_at(st, dir, EntrySize, ofs)} })

\* Ghost: the in-use entries of the directory whose inode is at sector.
Listing(st, sector) ==
    Only({ IF o.inode = NoInode THEN << >>
           ELSE SelectSeq(EntriesFrom(o.st, o.inode, 0), LAMBDA e : e.in_use)
           : o \in {inode_open(st, sector)} })

\* Ghost: the inode at sector is a directory.
IsDirSector(st, sector) ==
    /\ sector \in FsSectorIds
    /\ Only({ o.inode # NoInode /\ inode_isdir(o.st, o.inode)
              : o \in {inode_open(st, sector)} })

\* Ghost: the sector the directory at sector lists under name; NoSector
\* when it lists none or is no directory.
Child(st, sector, name) ==
    IF ~IsDirSector(st, sector) THEN NoSector
    ELSE Only({ IF \E k \in 1 .. Len(l) : l[k].name = name
                THEN l[CHOOSE k \in 1 .. Len(l) : l[k].name = name].inode_sector
                ELSE NoSector
                : l \in {Listing(st, sector)} })

\* Ghost: the sector reached from the directory at sector through the
\* components toks[k .. n].
RECURSIVE Walk(_, _, _, _, _)
Walk(st, sector, toks, k, n) ==
    IF k > n \/ sector = NoSector THEN sector
    ELSE Walk(st, Child(st, sector, toks[k]), toks, k + 1, n)

\* Ghost: the directories a directory lists, "." and ".." aside.
SubDirs(st, sector) ==
    Only({ {l[k].inode_sector : k \in {j \in 1 .. Len(l) :
                /\ l[j].name \notin {".", ".."}
                /\ IsDirSector(st, l[j].inode_sector)}}
           : l \in {Listing(st, sector)} })
\* Ghost: the directories of the tree, down to two levels below the root.
DirSectors(st) ==
    Only({ top \cup UNION {SubDirs(st, s) : s \in top \ {ROOT_DIR_SECTOR}}
           : top \in {{ROOT_DIR_SECTOR} \cup SubDirs(st, ROOT_DIR_SECTOR)} })
\* Ghost: the directories of the tree with their in-use entries.
Tree(st) == [s \in DirSectors(st) |-> Listing(st, s)]

\* Ghost: a call left the directories, the free map and the open counts
\* as they were.
Untouched(pre, post) ==
    /\ post.fmap = pre.fmap
    /\ \A i \in InodeIds :
          /\ post.ino[i].live = pre.ino[i].live
          /\ post.ino[i].open_cnt = pre.ino[i].open_cnt
    /\ Tree(post) = Tree(pre)

\* Ghost: the components of a name as written, and the names they spell.
Comps(s) == [k \in 1 .. Len(Tokens(s, 1, << >>)) |->
                TokenName(Tokens(s, 1, << >>)[k])]
\* Ghost: the sector of the directory a name starts from.
StartSector(st, cur, s) ==
    IF s # << >> /\ s[1] = "/" THEN ROOT_DIR_SECTOR ELSE st.ino[cur].sector
\* Ghost: the sector the first n components of a name lead to from start.
Named(st, start, s, n) == Walk(st, start, Comps(s), 1, n)
\* Ghost: the name is empty, has a component longer than NAME_MAX, or has
\* an intermediate component that is missing; parent is the sector its
\* components before the last lead to.
Invalid(s, parent) ==
    \/ s = << >>
    \/ \E k \in 1 .. Len(Comps(s)) : Comps(s)[k] = TooLong
    \/ parent = NoSector

\* Ghost: the sector the last component of a name leads to from parent,
\* in the storage st.
LastNamed(st, s, parent) ==
    IF Comps(s) = << >> THEN parent
    ELSE Child(st, parent, Comps(s)[Len(Comps(s))])

\* Ghost: the directory at sector lists nothing but "." and "..".
OnlyDots(st, sector) ==
    Only({ \A k \in 1 .. Len(l) : l[k].name \in {".", ".."}
           : l \in {Listing(st, sector)} })

\* Ghost: what a call with name s did, from the storage before and after
\* it; cwd is the sector of the caller's working directory after it,
\* parent the sector the components before the last led to before it.
GhostOf(s, pre, post, cwd, parent, after) ==
    Only({ [name |-> s,
            comps |-> Comps(s),
            long |-> Len(s) > PATH_MAX,
            slash |-> s # << >> /\ s[Len(s)] = "/",
            invalid |-> Invalid(s, parent),
            untouched |-> Untouched(pre, post),
            fmap_kept |-> post.fmap = pre.fmap,
            parent |-> parent,
            parent_dir |-> IsDirSector(pre, parent),
            named |-> named,
            named_after |-> LastNamed(post, s, after),
            named_dir |-> IsDirSector(pre, named),
            named_empty |-> IsDirSector(pre, named) /\ OnlyDots(pre, named),
            made_dir |-> IsDirSector(post, LastNamed(post, s, after)),
            cwd |-> cwd]
           : named \in {LastNamed(pre, s, parent)} })

\* cur is the caller's working directory before the call and cur2 after.
Ghost(s, pre, post, cur, cur2) ==
    Only({ GhostOf(s, pre, post, post.ino[cur2].sector,
                   Named(pre, start, s, Len(Comps(s)) - 1),
                   Named(post, start, s, Len(Comps(s)) - 1))
           : start \in {StartSector(pre, cur, s)} })

InitPath ==
    /\ Mounted
    /\ threads = << NewThread(open_inodes[1]) >>
    /\ hf = << >>
    /\ res = NoRes
    /\ ops = 0
    /\ starved = FALSE
    /\ read_head_lock = "free"
    /\ task = << >>
    /\ calls = 0
    /\ lastWritten = << >>
    /\ lastRead = NoRead
    /\ flushSnap = {}

PathCall == Ready /\ ops < MaxPathOps

\* A caller of find_dir that closes *inode when find_dir returns true.
PFind(s) ==
    /\ PathCall
    /\ \E u \in Undefs(s) :
       \E fd \in {find_dir(Load, threads[1].cur_dir, ParsePath(s, u))} :
       \E st \in {IF fd.ok THEN inode_close(fd.st, fd.inode) ELSE fd.st} :
          /\ Store(st)
          /\ res' = [op |-> "find", success |-> fd.ok,
                     sector |-> IF fd.ok THEN fd.st.ino[fd.inode].sector
                                ELSE NoSector,
                     last_name |-> fd.last_name]
                    @@ Ghost(s, Load, st, threads[1].cur_dir,
                             threads[1].cur_dir)
    /\ ops' = ops + 1
    /\ UNCHANGED <<threads, hf, starved, taskVars>>

PCreate(s) ==
    /\ PathCall
    /\ \E u \in Undefs(s) :
       \E c \in {filesys_create(Load, threads[1].cur_dir, ParsePath(s, u),
                                CreateSize, 0)} :
          /\ Store(c.st)
          /\ res' = [op |-> "create", success |-> c.success]
                    @@ Ghost(s, Load, c.st, threads[1].cur_dir,
                             threads[1].cur_dir)
    /\ ops' = ops + 1
    /\ UNCHANGED <<threads, hf, starved, taskVars>>

PMkdir(s) ==
    /\ PathCall
    /\ \E u \in Undefs(s) :
       \E c \in {filesys_mkdir(Load, threads[1].cur_dir, ParsePath(s, u),
                               0, 0)} :
          /\ Store(c.st)
          /\ res' = [op |-> "mkdir", success |-> c.success]
                    @@ Ghost(s, Load, c.st, threads[1].cur_dir,
                             threads[1].cur_dir)
    /\ ops' = ops + 1
    /\ UNCHANGED <<threads, hf, starved, taskVars>>

\* SYS_OPEN followed by SYS_CLOSE of the file it opened.
POpen(s) ==
    /\ PathCall
    /\ \E u \in Undefs(s) :
       \E o \in {filesys_open(Load, threads[1].cur_dir, ParsePath(s, u))} :
       \E st \in {IF o.file = NoInode THEN o.st ELSE inode_close(o.st, o.file)} :
          /\ Store(st)
          /\ res' = [op |-> "open", success |-> o.file # NoInode,
                     sector |-> IF o.file = NoInode THEN NoSector
                                ELSE o.st.ino[o.file].sector]
                    @@ Ghost(s, Load, st, threads[1].cur_dir,
                             threads[1].cur_dir)
    /\ ops' = ops + 1
    /\ UNCHANGED <<threads, hf, starved, taskVars>>

PRemove(s) ==
    /\ PathCall
    /\ \E u \in Undefs(s) :
       \E r \in {filesys_remove(Load, threads[1].cur_dir, threads[1].files,
                                ParsePath(s, u), 0)} :
          /\ Store(r.st)
          /\ res' = [op |-> "remove", success |-> r.success]
                    @@ Ghost(s, Load, r.st, threads[1].cur_dir,
                             threads[1].cur_dir)
    /\ ops' = ops + 1
    /\ UNCHANGED <<threads, hf, starved, taskVars>>

\* SYS_CHDIR of the only process: nothing runs between the scan of
\* open_inodes and list_push_front.
PChdir(s) ==
    /\ PathCall
    /\ \E u \in Undefs(s) :
       \E c \in {ChdirLookup(Load, threads[1].cur_dir, ParsePath(s, u))} :
       \E r \in {IF c.found
                 THEN ChdirRest(inode_open(c.st, c.sector), c.dir,
                                threads[1].cur_dir)
                 ELSE [st |-> c.st, cur_dir |-> threads[1].cur_dir,
                       success |-> FALSE]} :
          /\ Store(r.st)
          /\ threads' = [threads EXCEPT ![1].cur_dir = r.cur_dir]
          /\ res' = [op |-> "chdir", success |-> r.success]
                    @@ Ghost(s, Load, r.st, threads[1].cur_dir, r.cur_dir)
    /\ ops' = ops + 1
    /\ UNCHANGED <<hf, starved, taskVars>>

NextPath ==
    \/ \E s \in PathStrs : PFind(s)
    \/ \E s \in PathStrs : PCreate(s)
    \/ \E s \in PathStrs : PMkdir(s)
    \/ \E s \in PathStrs : POpen(s)
    \/ \E s \in PathStrs : PRemove(s)
    \/ \E s \in PathStrs : PChdir(s)
    \/ FsReadAhead

SpecPath == InitPath /\ [][NextPath]_vars

(* C11.  A create, open, remove, mkdir or chdir whose path is empty, has a *)
(* component longer than NAME_MAX or has a missing intermediate component  *)
(* fails and leaves the directories, the free map and every open count as  *)
(* they were.                                                              *)
PathOps == {"create", "open", "remove", "mkdir", "chdir"}
C11_InvalidPathNoEffect ==
    (Alive /\ res.op \in PathOps /\ res.invalid /\ ~res.long)
        => (~res.success /\ res.untouched)

(***************************************************************************)
(* C4.  The inode layer reaches the device through cache_read and         *)
(* cache_write only, so it never writes the device copy of a sector       *)
(* while the cache holds a dirty line of that sector.                     *)
(***************************************************************************)
C4_ThroughCache == res.behind = {}

(***************************************************************************)
(* C5.  A byte below a file's length that was never written through       *)
(* inode_write_at reads as 0 through inode_read_at, also when the file's  *)
(* sectors were freed by another file before (and the free map never ran  *)
(* out).                                                                  *)
(***************************************************************************)
C5_UnwrittenZero ==
    (res.op = "read" /\ ~starved /\ res.expect = NoVal) =>
        \A k \in 1 .. Len(res.bytes) : res.bytes[k] = 0

(***************************************************************************)
(* C6.  inode_read_at inside the file returns the requested number of     *)
(* bytes, and a byte that was written reads as the value last written     *)
(* (the free map never having run out).                                   *)
(***************************************************************************)
C6_ReadsLastWritten ==
    (res.op = "read" /\ ~starved /\ res.inside) =>
        /\ Len(res.bytes) = 1
        /\ res.expect # NoVal => res.bytes[1] = res.expect

\* The sectors of a sequence, and whether it names no sector twice.
Range(seq) == {seq[k] : k \in 1 .. Len(seq)}
NoDup(seq) == \A j, k \in 1 .. Len(seq) : seq[j] = seq[k] => j = k

(***************************************************************************)
(* C8.  The last inode_close of an inode marked removed returns, having   *)
(* handed to free_map_release, each exactly once, the inode sector and    *)
(* every sector the growth of the inode allocated (data sectors and index *)
(* blocks), whatever the size of the file.                                *)
(***************************************************************************)
C8_CloseFreesAll ==
    (res.op = "close" /\ res.removed /\ ~starved) =>
        /\ ~res.hang
        /\ NoDup(res.rel)
        /\ Range(res.rel) = res.owned

(***************************************************************************)
(* C10.  A create or a growing write during which free_map_allocate       *)
(* failed reports the failure (create returns false) and leaves the free  *)
(* map as it was before the call.                                         *)
(***************************************************************************)
C10_ExhaustionRollsBack ==
    (res.op \in {"create", "write"} /\ res.fails > 0) =>
        /\ res.op = "create" => ~res.success
        /\ free_map = res.before

(***************************************************************************)
(* C1.  Whatever the interleaving of the calls of several processes        *)
(* (create, open, remove, mkdir, close, chdir, exit), the list open_inodes *)
(* holds at most one struct inode per sector.                              *)
(***************************************************************************)
C1_SingleInstance ==
    \A j, k \in 1 .. Len(open_inodes) :
        inodes[open_inodes[j]].sector = inodes[open_inodes[k]].sector => j = k

(***************************************************************************)
(* C7.  When the last handle of a regular file that was removed is closed, *)
(* the inode sector and the data sectors of the file are free in the free  *)
(* map.                                                                    *)
(***************************************************************************)
C7_RemovedFileFreed ==
    (res.op = "close" /\ res.removed /\ ~res.is_dir /\ res.last) =>
        res.held \cap res.busy = {}

(***************************************************************************)
(* C9.  filesys_remove of a directory that some process has open or has    *)
(* as its working directory returns false and leaves the directory in      *)
(* place.                                                                  *)
(***************************************************************************)
C9_InUseDirKept ==
    (res.op = "remove" /\ res.is_dir /\ res.in_use) =>
        ~res.success /\ res.kept


(* C12.  A path that ends in '/' addresses the directory its last          *)
(* component names: mkdir of such a path whose parent exists and whose    *)
(* last component is new succeeds and makes the directory there; open     *)
(* and chdir of such a path that names a directory succeed, open with     *)
(* that directory and chdir with it as the caller's working directory.    *)
C12_TrailingSlash ==
    (Alive /\ res.op \in {"mkdir", "open", "chdir"} /\ res.slash /\ ~res.long)
        => /\ (res.op = "mkdir" /\ res.parent_dir /\ res.named = NoSector)
                => (res.success /\ res.made_dir)
           /\ (res.op = "open" /\ res.named_dir)
                => (res.success /\ res.sector = res.named)
           /\ (res.op = "chdir" /\ res.named_dir)
                => (res.success /\ res.cwd = res.named)

(* C13.  For a path of at most PATH_MAX characters that does not end in   *)
(* '/', has no component longer than NAME_MAX and whose components but    *)
(* the last name existing directories, find_dir returns true with *inode  *)
(* the directory that contains the last component and last_name that      *)
(* component, whether the path is absolute or relative, whatever runs of  *)
(* '/' it has, and whether or not the last component exists.              *)
C13_FindDirParent ==
    (/\ Alive /\ res.op = "find" /\ ~res.long /\ ~res.slash
     /\ Len(res.comps) > 0
     /\ \A k \in 1 .. Len(res.comps) : res.comps[k] # TooLong
     /\ res.parent_dir)
        => /\ res.success
           /\ res.sector = res.parent
           /\ res.last_name = res.comps[Len(res.comps)]
\* find_dir has resolved the relative path a//d below the directory a.
C13_Witness ==
    /\ Alive /\ res.op = "find" /\ res.success
    /\ res.name = << "a", "/", "/", "d" >>
    /\ res.parent_dir /\ res.parent # ROOT_DIR_SECTOR
    /\ res.sector = res.parent /\ res.last_name = "d"

(* C14.  find_dir returns false for every path of more than PATH_MAX      *)
(* characters: it never resolves the first PATH_MAX characters of it.     *)
C14_LongPathRejected ==
    (Alive /\ res.op = "find" /\ res.long) => ~res.success

\* Ghost: the directory at sector lists name in use; with self, the entry
\* refers to the directory's own sector.
HasEntry(st, sector, name, self) ==
    Only({ \E k \in 1 .. Len(l) :
              /\ l[k].name = name
              /\ self => l[k].inode_sector = sector
           : l \in {Listing(st, sector)} })

(* C15.  Every directory of the tree has an in-use entry "." and an       *)
(* in-use entry ".."; in the root both refer to the root's own sector.    *)
C15_DotEntries ==
    Alive => \A s \in DirSectors(Load) :
                /\ HasEntry(Load, s, ".", s = ROOT_DIR_SECTOR)
                /\ HasEntry(Load, s, "..", s = ROOT_DIR_SECTOR)


(***************************************************************************)
(* SpecDeny: a client of the inode layer with several openers of one      *)
(* file.  Each opener holds a reference from inode_open or inode_reopen   *)
(* and calls inode_deny_write, inode_allow_write, inode_write_at and      *)
(* inode_close on it, one call at a time.                                 *)
(***************************************************************************)
MaxOpeners == 2
\* The client makes at most MaxDenyOps calls.
MaxDenyOps == 7
\* File sizes at creation.
DenyLens == {0, 1, 2 * BLOCK_SECTOR_SIZE}
\* Buffers and offsets of inode_write_at.
WriteBufs == {<< 1 >>, << 1, 1 >>}
DenyOffsets == {0, 2 * BLOCK_SECTOR_SIZE - 1}

\* The client's file: created at sector with length bytes; fresh until the
\* first inode_write_at; openers holds, for each reference, its inode and
\* how many inode_deny_write calls of the opener are not yet allowed again.
\* Ghost: lawful tells that so far every opener has called inode_deny_write
\* at most once and inode_allow_write before closing, as the comments of
\* inode_deny_write and inode_allow_write require.
NoDenyFile ==
    [made |-> FALSE, sector |-> NoSector, length |-> 0, fresh |-> TRUE,
     lawful |-> TRUE, openers |-> << >>]

InitDeny ==
    /\ Mounted
    /\ hf = NoDenyFile
    /\ res = NoRes
    /\ ops = 0
    /\ starved = FALSE
    /\ threads = << >>
    /\ read_head_lock = "free"
    /\ task = << >>
    /\ calls = 0
    /\ lastWritten = << >>
    /\ lastRead = NoRead
    /\ flushSnap = {}

DenyCall == Ready /\ ops < MaxDenyOps

\* Ghost: the bytes of the file as inode_read_at returns them.
Contents(st, id) == inode_read_at(st, id, st.ino[id].data.length, 0).bytes

\* free_map_allocate (1, &sector) and inode_create (sector, len, false).
DCreate(len) ==
    /\ DenyCall
    /\ ~hf.made
    /\ \E s \in {FirstFree(free_map)} :
       \E c \in {inode_create([Load EXCEPT !.fmap = @ \cup {s}], s, len,
                              FALSE, 0)} :
          /\ Store(c.st)
          /\ hf' = [hf EXCEPT !.made = c.success, !.sector = s, !.length = len]
          /\ res' = [op |-> "create", success |-> c.success, len |-> len]
    /\ ops' = ops + 1
    /\ UNCHANGED <<starved, taskVars, threads>>

\* inode_open (sector) by a new opener.
DOpen ==
    /\ DenyCall
    /\ hf.made
    /\ Len(hf.openers) < MaxOpeners
    /\ \E o \in {inode_open(Load, hf.sector)} :
          /\ Store(o.st)
          /\ hf' = IF o.inode = NoInode THEN hf
                   ELSE [hf EXCEPT !.openers =
                            Append(@, [inode |-> o.inode, denied |-> 0])]
          /\ res' = [op |-> "open", success |-> o.inode # NoInode,
                     fresh |-> hf.fresh, len |-> hf.length,
                     length |-> IF o.inode = NoInode THEN 0
                                ELSE o.st.ino[o.inode].data.length,
                     sector_usage |-> IF o.inode = NoInode THEN 0
                                      ELSE o.st.ino[o.inode].data.sector_usage]
    /\ ops' = ops + 1
    /\ UNCHANGED <<starved, taskVars, threads>>

\* inode_reopen (inode) of opener k, for a new opener.
DReopen(k) ==
    /\ DenyCall
    /\ Len(hf.openers) < MaxOpeners
    /\ Store(inode_reopen(Load, hf.openers[k].inode))
    /\ hf' = [hf EXCEPT !.openers =
                 Append(@, [inode |-> hf.openers[k].inode, denied |-> 0])]
    /\ res' = [op |-> "reopen"]
    /\ ops' = ops + 1
    /\ UNCHANGED <<starved, taskVars, threads>>

DDeny(k) ==
    /\ DenyCall
    /\ Store(inode_deny_write(Load, hf.openers[k].inode))
    /\ hf' = [hf EXCEPT !.openers[k].denied = @ + 1,
                        !.lawful = @ /\ hf.openers[k].denied = 0]
    /\ res' = [op |-> "deny"]
    /\ ops' = ops + 1
    /\ UNCHANGED <<starved, taskVars, threads>>

DAllow(k) ==
    /\ DenyCall
    /\ Store(inode_allow_write(Load, hf.openers[k].inode))
    /\ hf' = [hf EXCEPT !.openers[k].denied = IF @ > 0 THEN @ - 1 ELSE 0,
                        !.lawful = @ /\ hf.openers[k].denied > 0]
    /\ res' = [op |-> "allow"]
    /\ ops' = ops + 1
    /\ UNCHANGED <<starved, taskVars, threads>>

\* inode_close (inode) by opener k, who is gone afterwards.
DClose(k) ==
    /\ DenyCall
    /\ Store(inode_close(Load, hf.openers[k].inode))
    /\ hf' = [hf EXCEPT !.openers =
                 SubSeq(@, 1, k - 1) \o SubSeq(@, k + 1, Len(@)),
                        !.lawful = @ /\ hf.openers[k].denied = 0]
    /\ res' = [op |-> "close"]
    /\ ops' = ops + 1
    /\ UNCHANGED <<starved, taskVars, threads>>

\* inode_write_at (inode, buffer, size, offset) by opener k.
DWrite(k, buffer, offset) ==
    /\ DenyCall
    /\ \E id \in {hf.openers[k].inode} :
       \E w \in {inode_write_at(Load, id, buffer, offset, 0)} :
          /\ Store(w.st)
          /\ hf' = [hf EXCEPT !.fresh = FALSE]
          /\ res' = [op |-> "write", n |-> w.n,
                     denied |-> inodes[id].deny_write_cnt > 0,
                     within |-> offset + Len(buffer) <= inodes[id].data.length,
                     same_length |-> w.st.ino[id].data.length
                                        = inodes[id].data.length,
                     same_counters |->
                         [w.st.ino[id].data EXCEPT !.length = 0, !.blocks = 0]
                            = [inodes[id].data EXCEPT !.length = 0, !.blocks = 0],
                     same_blocks |-> w.st.ino[id].data.blocks
                                        = inodes[id].data.blocks,
                     same_fmap |-> w.st.fmap = free_map,
                     same_data |-> Contents(w.st, id) = Contents(Load, id)]
    /\ ops' = ops + 1
    /\ UNCHANGED <<starved, taskVars, threads>>

NextDeny ==
    \/ \E len \in DenyLens : DCreate(len)
    \/ DOpen
    \/ \E k \in DOMAIN hf.openers : DReopen(k)
    \/ \E k \in DOMAIN hf.openers : DDeny(k)
    \/ \E k \in DOMAIN hf.openers : DAllow(k)
    \/ \E k \in DOMAIN hf.openers : DClose(k)
    \/ \E k \in DOMAIN hf.openers : \E buffer \in WriteBufs :
          \E offset \in DenyOffsets : DWrite(k, buffer, offset)
    \/ FsReadAhead

SpecDeny == InitDeny /\ [][NextDeny]_vars

(* C16.  Every open inode has 0 <= deny_write_cnt <= open_cnt, whatever   *)
(* inode_open, inode_reopen, inode_deny_write, inode_allow_write and      *)
(* inode_close calls were made.                                           *)
C16_DenyWithinOpen ==
    Alive => \A i \in InodeIds :
                inodes[i].live =>
                    /\ 0 <= inodes[i].deny_write_cnt
                    /\ inodes[i].deny_write_cnt <= inodes[i].open_cnt
\* The same, for the sequences of calls in which every opener calls
\* inode_deny_write at most once and inode_allow_write before it closes.
C16_DenyWithinOpenLawful ==
    (Alive /\ hf.lawful) => \A i \in InodeIds :
                inodes[i].live =>
                    /\ 0 <= inodes[i].deny_write_cnt
                    /\ inodes[i].deny_write_cnt <= inodes[i].open_cnt
\* Of two openers one has denied writes and the other has closed.
C16_Witness ==
    /\ Alive /\ hf.lawful /\ res.op = "close"
    /\ Len(hf.openers) = 1 /\ hf.openers[1].denied = 1
    /\ inodes[hf.openers[1].inode].deny_write_cnt = 1
    /\ inodes[hf.openers[1].inode].open_cnt = 1

(* C17.  inode_write_at on an inode with deny_write_cnt > 0 returns 0 and *)
(* leaves the inode's length, its sector counters and block pointers, the *)
(* free map and the file's data as they were, also when the write would   *)
(* end past the end of the file.                                          *)
C17_DeniedWriteNoEffect ==
    (Alive /\ res.op = "write" /\ res.denied)
        => /\ res.n = 0
           /\ res.same_length /\ res.same_counters /\ res.same_blocks
           /\ res.same_fmap /\ res.same_data
\* A denied write that would have ended past the end of the file.
C17_Witness ==
    /\ Alive /\ res.op = "write" /\ res.denied /\ ~res.within
    /\ res.n = 0 /\ res.same_length /\ res.same_fmap

(* C19.  inode_write_at with offset + size <= length leaves the inode's   *)
(* sector_usage, its other usage counters, its length and the free map    *)
(* as they were.                                                          *)
C19_WriteWithinLength ==
    (Alive /\ res.op = "write" /\ res.within)
        => (res.same_counters /\ res.same_length /\ res.same_fmap)
\* A write inside the file that stored its bytes.
C19_Witness ==
    /\ Alive /\ res.op = "write" /\ res.within /\ ~res.denied
    /\ res.n = 2 /\ res.same_counters /\ res.same_length /\ res.same_fmap

(* C18.  After inode_create (sector, len, is_dir) has returned true,      *)
(* inode_open (sector) gives an inode with length len and sector_usage    *)
(* DIV_ROUND_UP (len, BLOCK_SECTOR_SIZE).                                 *)
C18_CreateThenOpen ==
    (Alive /\ res.op = "open" /\ res.fresh)
        => /\ res.success
           /\ res.length = res.len
           /\ res.sector_usage * BLOCK_SECTOR_SIZE >= res.len
           /\ (res.sector_usage - 1) * BLOCK_SECTOR_SIZE < res.len
\* A file of one byte was created and opened: one sector.
C18_Witness ==
    /\ Alive /\ res.op = "open" /\ res.fresh /\ res.success
    /\ res.len = 1 /\ res.length = 1 /\ res.sector_usage = 1


(***************************************************************************)
(* SpecDir: a client of the directory layer that adds and removes         *)
(* entries of the root directory.  An entry is added the way             *)
(* filesys_create does it: free_map_allocate, inode_create of an empty    *)
(* file, dir_add, and free_map_release when dir_add fails.                *)
(***************************************************************************)
\* The client makes at most MaxDirOps calls.
MaxDirOps == 4
\* The names handed to dir_add and dir_remove.
DirNames == {"", ".", "a", "d", TooLong}

InitDir ==
    /\ Mounted
    /\ hf = [dir |-> open_inodes[1]]
    /\ res = NoRes
    /\ ops = 0
    /\ starved = FALSE
    /\ threads = << >>
    /\ read_head_lock = "free"
    /\ task = << >>
    /\ calls = 0
    /\ lastWritten = << >>
    /\ lastRead = NoRead
    /\ flushSnap = {}

\* Ghost: the in-use entries of the directory open as dir.
Entries(st, dir) ==
    SelectSeq(EntriesFrom(st, dir, 0), LAMBDA e : e.in_use)

\* dir_add (dir, name, sector) of a new empty file.  Ghost: present tells
\* that the name was in the directory, same that dir_add left the entries,
\* the free map and the inodes as they were.
DirAdd(name) ==
    /\ Ready /\ ops < MaxDirOps
    /\ FirstFree(free_map) # NoSector
    /\ \E s \in {FirstFree(free_map)} :
       \E c \in {inode_create([Load EXCEPT !.fmap = @ \cup {s}], s, 0, FALSE, 0)} :
       \E a \in {dir_add(c.st, hf.dir, name, s, 0)} :
          /\ Store(IF a.success THEN a.st
                   ELSE [a.st EXCEPT !.fmap = @ \ {s}])
          /\ res' = [op |-> "add", name |-> name, success |-> a.success,
                     present |-> \E k \in 1 .. Len(Entries(c.st, hf.dir)) :
                                    Entries(c.st, hf.dir)[k].name = name,
                     same |-> /\ Entries(a.st, hf.dir) = Entries(c.st, hf.dir)
                              /\ a.st.fmap = c.st.fmap
                              /\ a.st.ino = c.st.ino]
    /\ ops' = ops + 1
    /\ UNCHANGED <<hf, starved, taskVars, threads>>

DirRemove(name) ==
    /\ Ready /\ ops < MaxDirOps
    /\ \E r \in {dir_remove(Load, hf.dir, name, 0)} :
          /\ Store(r.st)
          /\ res' = [op |-> "remove", name |-> name, success |-> r.success]
    /\ ops' = ops + 1
    /\ UNCHANGED <<hf, starved, taskVars, threads>>

NextDir ==
    \/ \E name \in DirNames : DirAdd(name)
    \/ \E name \in DirNames : DirRemove(name)
    \/ FsReadAhead

SpecDir == InitDir /\ [][NextDir]_vars

(* C20.  No two in-use entries of the directory have the same name, and   *)
(* dir_add returns false and changes nothing when the name is empty, is   *)
(* longer than NAME_MAX or is in the directory already.                   *)
C20_UniqueNames ==
    Alive =>
        /\ \A j, k \in 1 .. Len(Entries(Load, hf.dir)) :
              j # k => Entries(Load, hf.dir)[j].name
                          # Entries(Load, hf.dir)[k].name
        /\ (res.op = "add" /\ (res.name = "" \/ res.name = TooLong \/ res.present))
              => (~res.success /\ res.same)
\* The last of MaxDirOps calls is a dir_add of the name a, which is in the
\* directory, and is refused.
C20_Witness ==
    /\ Alive /\ res.op = "add" /\ res.name = "a" /\ res.present
    /\ ~res.success /\ res.same
    /\ ops = MaxDirOps
    /\ Len(Entries(Load, hf.dir)) = 3

(***************************************************************************)
(* C21.  filesys_remove of a directory that lists an in-use entry other    *)
(* than "." and ".." returns false and leaves the directories as they      *)
(* were; filesys_remove of a directory that lists no such entry returns    *)
(* true.                                                                   *)
(***************************************************************************)
C21_RemoveDirEmptiness ==
    (Alive /\ res.op = "remove" /\ ~res.long /\ ~res.invalid /\ res.named_dir)
        => IF res.named_empty THEN res.success
           ELSE ~res.success /\ res.untouched

(***************************************************************************)
(* C22.  Every step of a system call that changes the list open_inodes or  *)
(* the open_cnt of an inode (through inode_open, inode_reopen or           *)
(* inode_close) runs while the calling process holds my_lock.              *)
(***************************************************************************)
C22_OpensUnderLock ==
    (res.op \in {"create", "mkdir", "open", "close", "remove", "scan",
                 "chdir", "exit"} /\ res.opens) => res.lock # "none"

(***************************************************************************)
(* C23.  No reachable state of the cache is a deadlock: in every state     *)
(* some task (a client inside cache_read or cache_write, the read-ahead    *)
(* consumer or the flusher) can take a step.                               *)
(***************************************************************************)
TaskStep ==
    \/ \E t \in {"cl", "ra"} : Find(t) \/ Evict(t) \/ Install(t)
    \/ Put
    \/ RaPop
    \/ FlushStart
    \/ FlushLine
    \/ FlushReturn
C23_NoDeadlock == ENABLED TaskStep

(***************************************************************************)
(* C24.  choose_evict returns a cache line that the caller holds: an       *)
(* invalid line, or, when every line is valid, the line with the smallest  *)
(* last-used tick; it returns one whatever the last-used ticks are.        *)
(***************************************************************************)
C24_EvictChoice ==
    /\ ~panic
    /\ \A t \in {"cl", "ra"} :
          task[t].pc = "install" =>
              /\ cache[task[t].i].sema = 0
              /\ \/ ~cache[task[t].i].valid
                 \/ \A j \in LineIds :
                       /\ cache[j].valid
                       /\ cache[task[t].i].time <= cache[j].time

(***************************************************************************)
(* C25.  When choose_evict returns a dirty line to be recycled, the        *)
(* line's data is on the device at the line's recorded sector; only the    *)
(* task that holds a line changes the line's sector, and it holds the      *)
(* line's semaphore from the return of choose_evict until then; nothing    *)
(* else changes a line whose semaphore is held.                            *)
(***************************************************************************)
\* Ghost: task t holds the semaphore of line i.
HoldsLine(t, i) ==
    \/ task[t].pc = "install" /\ task[t].i = i
    \/ task[t].pc = "evict" /\ task[t].evict = i
C25_WriteBackBeforeReuse ==
    [][\A t \in {"cl", "ra"} : \A i \in LineIds :
          /\ (task[t].pc = "evict" /\ task'[t].pc = "install" /\ task'[t].i = i)
                => /\ cache'[i].sema = 0
                   /\ cache'[i] = [cache[i] EXCEPT !.sema = 0]
                   /\ (cache[i].valid /\ cache[i].dirty)
                         => disk'[cache[i].disk_sector] = cache[i].disk_data
          /\ (task[t].pc = "install" /\ task[t].i = i) => cache[i].sema = 0
          /\ (cache[i].sema = 0 /\ cache'[i] # cache[i])
                => \E u \in {"cl", "ra"} : HoldsLine(u, i) /\ task'[u] # task[u]
          /\ (cache[i].valid /\ cache'[i].disk_sector # cache[i].disk_sector)
                => cache[i].sema = 0]_vars
\* choose_evict has written a dirty line back and returned it, held, to be
\* recycled for another sector.
C25_Witness ==
    \E t \in {"cl", "ra"} :
        /\ task[t].pc = "install"
        /\ cache[task[t].i].valid /\ cache[task[t].i].dirty
        /\ cache[task[t].i].sema = 0
        /\ cache[task[t].i].disk_sector # task[t].sector
        /\ disk[cache[task[t].i].disk_sector] = cache[task[t].i].disk_data
        /\ cache[task[t].i].disk_data # 0

(***************************************************************************)
(* SpecRing: the read-ahead buffer with its lock and its two condition     *)
(* variables (cache.c, put_read_ahead_buffer and read_ahead), with several *)
(* producers.  A producer is a client at the end of cache_read; what the   *)
(* consumer does to the cache between its pop and its cond_signal is one   *)
(* step here (it is spelled out in SpecCache).  A step that needs          *)
(* read_head_lock and does not keep it runs from lock_acquire to           *)
(* lock_release or to the release inside cond_wait.                        *)
(***************************************************************************)
\* The producers call put_read_ahead_buffer at most MaxPuts times in all.
MaxPuts == 4
Producers == {"p1", "p2"}

InitRing ==
    /\ cache = [i \in LineIds |-> EmptyLine]
    /\ disk = [s \in CacheSectors |-> 0]
    /\ ticks = 0
    /\ read_head_buffer = << >>
    /\ read_head_lock = "free"
    /\ task = [t \in Producers \cup {"ra"} |->
                 IdleTask(IF t = "ra" THEN "acquire" ELSE "idle")]
    /\ panic = FALSE
    /\ calls = 0
    /\ lastWritten = [s \in CacheSectors |-> NoVal]
    /\ lastRead = NoRead
    /\ flushSnap = {}
    /\ free_map = {}
    /\ inodes = << >>
    /\ open_inodes = << >>
    /\ hung = FALSE
    /\ hf = << >>
    /\ res = [op |-> "none"]
    /\ ops = 0
    /\ starved = FALSE
    /\ threads = << >>

\* cond_signal (cond, &read_head_lock): the task records after one of the
\* tasks waiting on cond, if there is one, was woken to take the lock again.
cond_signal(cond, tk) ==
    IF \A w \in DOMAIN tk : tk[w].pc # cond THEN {tk}
    ELSE {[tk EXCEPT ![w] = [@ EXCEPT !.pc = "acquire"]] :
            w \in {x \in DOMAIN tk : tk[x].pc = cond}}

\* cache_read (block, sector) of producer p has released its line and
\* calls put_read_ahead_buffer (block, sector + 1).
RingCall(p) ==
    /\ task[p].pc = "idle"
    /\ calls < MaxPuts
    /\ calls' = calls + 1
    /\ \E s \in CacheSectors :
          task' = [task EXCEPT ![p] =
                     [IdleTask("acquire") EXCEPT !.op = "read", !.sector = s + 1]]
    /\ UNCHANGED <<cache, disk, ticks, read_head_buffer, read_head_lock, panic,
                   lastWritten, lastRead, flushSnap, upperVars>>

\* put_read_ahead_buffer without the wait for a buffer that is full.
PutUnchecked(p) ==
    /\ task[p].pc = "acquire"
    /\ read_head_lock = "free"
    /\ read_head_buffer' = Append(read_head_buffer, task[p].sector)
    /\ task' \in cond_signal("not_empty", [task EXCEPT ![p] = IdleTask("idle")])
    /\ UNCHANGED <<cache, disk, ticks, read_head_lock, panic, calls, lastWritten,
                   lastRead, flushSnap, upperVars>>

\* put_read_ahead_buffer from lock_acquire (on entry, or on the way out of
\* cond_wait): with the buffer full the producer waits on
\* read_head_buffer_not_full; otherwise it stores the element at
\* read_head_buffer_n++, signals read_head_buffer_not_empty and returns.
put_read_ahead_buffer(p) ==
    /\ task[p].pc = "acquire"
    /\ read_head_lock = "free"
    /\ IF Len(read_head_buffer) = READ_AHEAD_BUFFER_SIZE
       THEN /\ task' = [task EXCEPT ![p].pc = "not_full"]
            /\ UNCHANGED read_head_buffer
       ELSE /\ read_head_buffer' = Append(read_head_buffer, task[p].sector)
            /\ task' \in cond_signal("not_empty",
                                     [task EXCEPT ![p] = IdleTask("idle")])
    /\ UNCHANGED <<cache, disk, ticks, read_head_lock, panic, calls, lastWritten,
                   lastRead, flushSnap, upperVars>>

\* read_ahead taking the oldest pending element instead of the newest.
PopOldest ==
    /\ task["ra"].pc = "acquire"
    /\ read_head_lock = "free"
    /\ IF Len(read_head_buffer) = 0
       THEN /\ task' = [task EXCEPT !["ra"].pc = "not_empty"]
            /\ UNCHANGED <<read_head_buffer, read_head_lock>>
       ELSE /\ read_head_buffer' = Tail(read_head_buffer)
            /\ task' = [task EXCEPT !["ra"] =
                          [IdleTask("work") EXCEPT !.op = "ahead",
                             !.sector = Head(read_head_buffer)]]
            /\ read_head_lock' = "ra"
    /\ UNCHANGED <<cache, disk, ticks, panic, calls, lastWritten, lastRead,
                   flushSnap, upperVars>>

\* read_ahead from lock_acquire: with the buffer empty the consumer waits
\* on read_head_buffer_not_empty; otherwise it takes the element at
\* --read_head_buffer_n and keeps read_head_lock.
read_ahead ==
    /\ task["ra"].pc = "acquire"
    /\ read_head_lock = "free"
    /\ IF Len(read_head_buffer) = 0
       THEN /\ task' = [task EXCEPT !["ra"].pc = "not_empty"]
            /\ UNCHANGED <<read_head_buffer, read_head_lock>>
       ELSE /\ read_head_buffer' =
                  SubSeq(read_head_buffer, 1, Len(read_head_buffer) - 1)
            /\ task' = [task EXCEPT !["ra"] =
                          [IdleTask("work") EXCEPT !.op = "ahead",
                             !.sector = read_head_buffer[Len(read_head_buffer)]]]
            /\ read_head_lock' = "ra"
    /\ UNCHANGED <<cache, disk, ticks, panic, calls, lastWritten, lastRead,
                   flushSnap, upperVars>>

\* The rest of the consumer's round: the element is loaded or dropped,
\* read_head_buffer_not_full is signalled and read_head_lock released.
RingDone ==
    /\ task["ra"].pc = "work"
    /\ read_head_lock = "ra"
    /\ read_head_lock' = "free"
    /\ task' \in cond_signal("not_full",
                             [task EXCEPT !["ra"] = IdleTask("acquire")])
    /\ UNCHANGED <<cache, disk, ticks, read_head_buffer, panic, calls, lastWritten,
                   lastRead, flushSnap, upperVars>>

NextRing ==
    \/ \E p \in Producers : RingCall(p)
    \/ \E p \in Producers : put_read_ahead_buffer(p)
    \/ read_ahead
    \/ RingDone

SpecRing == InitRing /\ [][NextRing]_vars

(***************************************************************************)
(* C26.  In every reachable state of the cache, a line whose valid flag is *)
(* false has its dirty flag false.                                         *)
(***************************************************************************)
C26_InvalidClean ==
    \A i \in LineIds : ~cache[i].valid => ~cache[i].dirty
\* A cache_write has made one line valid and dirty while another line is
\* still invalid.
C26_Witness ==
    /\ \E i \in LineIds : cache[i].valid /\ cache[i].dirty
    /\ \E i \in LineIds : ~cache[i].valid /\ ~cache[i].dirty
    /\ task["cl"].pc = "idle" /\ calls > 0

(***************************************************************************)
(* C27.  The number of pending read-ahead requests stays within            *)
(* 0 .. READ_AHEAD_BUFFER_SIZE: put_read_ahead_buffer does not push onto a *)
(* full buffer and read_ahead does not pop from an empty one.              *)
(***************************************************************************)
C27_BufferBounds ==
    /\ Len(read_head_buffer) \in 0 .. READ_AHEAD_BUFFER_SIZE
    /\ read_head_buffer \in Seq(0 .. DeviceSectors)
\* The buffer is full, both producers wait on read_head_buffer_not_full
\* inside put_read_ahead_buffer, and the consumer has popped before.
C27_Witness ==
    /\ Len(read_head_buffer) = READ_AHEAD_BUFFER_SIZE
    /\ \A p \in Producers : task[p].pc = "not_full"
    /\ calls = MaxPuts

(***************************************************************************)
(* C28.  The read-ahead consumer takes the most recently enqueued pending  *)
(* request: a push puts the new request behind the pending ones, and a pop *)
(* takes the last of them and leaves the others as they were.              *)
(***************************************************************************)
C28_NewestFirst ==
    [][/\ Len(read_head_buffer') > Len(read_head_buffer)
            => \E s \in 0 .. DeviceSectors :
                  read_head_buffer' = Append(read_head_buffer, s)
       /\ Len(read_head_buffer') < Len(read_head_buffer)
            => /\ read_head_buffer' =
                     SubSeq(read_head_buffer, 1, Len(read_head_buffer) - 1)
               /\ task'["ra"].pc = "work"
               /\ task'["ra"].sector = read_head_buffer[Len(read_head_buffer)]]_vars
\* The consumer has popped the newer of two pending requests for different
\* sectors; the older one is still pending.
C28_Witness ==
    /\ task["ra"].pc = "work"
    /\ read_head_lock = "ra"
    /\ Len(read_head_buffer) = READ_AHEAD_BUFFER_SIZE - 1
    /\ read_head_buffer[1] # task["ra"].sector
    /\ \E p \in Producers : task[p].pc = "not_full"

(***************************************************************************)
(* SpecFlush: a client that only writes, the flusher and the timer, under  *)
(* the round-robin scheduler: a task whose next step stays possible takes  *)
(* it, and the flusher's timer_msleep ends.  The client is not obliged to  *)
(* make calls and the timer need not tick.                                 *)
(***************************************************************************)
\* A client enters cache_write (block, s, d).
WriteCall ==
    /\ ~panic
    /\ UNCHANGED upperVars
    /\ task["cl"].pc = "idle"
    /\ calls < MaxCalls
    /\ calls' = calls + 1
    /\ \E s \in CacheSectors, d \in 1 .. MaxVal :
         task' = [task EXCEPT !["cl"] =
                    [IdleTask("find") EXCEPT !.op = "write", !.sector = s,
                       !.data = d]]
    /\ lastRead' = NoRead
    /\ UNCHANGED <<cache, disk, ticks, read_head_buffer, read_head_lock, panic,
                   lastWritten, flushSnap>>

NextFlush ==
    \/ Tick
    \/ WriteCall
    \/ Find("cl")
    \/ Evict("cl")
    \/ Install("cl")
    \/ FlushStart
    \/ FlushLine
    \/ FlushReturn

SpecFlush ==
    /\ InitCache
    /\ [][NextFlush]_vars
    /\ WF_vars(Find("cl")) /\ WF_vars(Evict("cl")) /\ WF_vars(Install("cl"))
    /\ WF_vars(FlushStart)
    /\ WF_vars(FlushLine)
    /\ WF_vars(FlushReturn)

(***************************************************************************)
(* C29.  Under fair scheduling, a cache line that is dirty with data d for *)
(* sector s leads to the device holding d at s (written by the flusher or  *)
(* by an eviction), unless a later cache_write puts other data for s into  *)
(* the line first.                                                         *)
(***************************************************************************)
\* Ghost: line i is dirty for sector s.
DirtyFor(i, s) ==
    cache[i].valid /\ cache[i].dirty /\ cache[i].disk_sector = s
C29_DirtyReachesDevice ==
    \A i \in LineIds : \A s \in CacheSectors : \A d \in 1 .. MaxVal :
        (DirtyFor(i, s) /\ cache[i].disk_data = d)
            ~> (disk[s] = d \/ (DirtyFor(i, s) /\ cache[i].disk_data # d))

(***************************************************************************)
(* C30.  After any sequence of create, mkdir, remove and chdir calls,      *)
(* successive dir_readdir calls on a freshly opened handle of the root     *)
(* directory or of the working directory return the names of the in-use    *)
(* entries other than "." and "..", each once, and then return false.      *)
(***************************************************************************)
\* Ghost: the names that successive dir_readdir calls on dir return until
\* one returns false.
RECURSIVE ReaddirAll(_, _)
ReaddirAll(st, dir) ==
    Only({ IF ~r.ok THEN << >>
           ELSE << r.name >> \o ReaddirAll(r.st, r.dir)
           : r \in {dir_readdir(st, dir)} })
\* Ghost: the names a fresh handle on the directory at sector lists.
ReadsOf(st, sector) ==
    Only({ ReaddirAll(o.st, DirHandle(o.inode))
           : o \in {inode_open(st, sector)} })
\* Ghost: the names of the in-use entries of the directory at sector other
\* than "." and "..", in file order.
NamesOf(st, sector) ==
    Only({ [k \in 1 .. Len(l) |-> l[k].name]
           : l \in {SelectSeq(Listing(st, sector),
                              LAMBDA e : e.name \notin {".", ".."})} })
C30_ReaddirListsAll ==
    Alive =>
        \A s \in {ROOT_DIR_SECTOR, inodes[threads[1].cur_dir].sector} :
            ReadsOf(Load, s) = NamesOf(Load, s)

(***************************************************************************)
(* The on-disk inode and growth.                                           *)
(***************************************************************************)
\* A sector as a cache_read would return it: the line that holds it, or
\* the device.
SeenThroughCache(s) ==
    IF LineOf(cache, s) # NoLine THEN cache[LineOf(cache, s)].disk_data
    ELSE disk[s]

\* C31: after an inode_write_at, the sector of every open inode, as seen
\* through the cache, holds the inode's current length, block pointers and
\* counters: a growth is written to the on-disk copy by the write itself,
\* before any inode_close.
C31_GrowthWritesInode ==
    \A f \in FileIds :
        (Alive /\ res.op = "write" /\ hf[f].at = "open")
            => AsInode(SeenThroughCache(hf[f].sector)) = inodes[hf[f].inode].data

\* C32: no two valid cache lines hold the same sector.
C32_OneLinePerSector ==
    \A i, j \in LineIds :
        (cache[i].valid /\ cache[j].valid
            /\ cache[i].disk_sector = cache[j].disk_sector) => i = j

(***************************************************************************)
(* References and handles.                                                 *)
(***************************************************************************)
\* The handles on the in-memory inode i: the working directories and the
\* open files of the processes.
Handles(i) ==
    Cardinality({q \in DOMAIN threads : threads[q].cur_dir = i})
    + Cardinality({qk \in UNION {{q} \X DOMAIN threads[q].files : q \in DOMAIN threads} :
                      threads[qk[1]].files[qk[2]].file = i})

\* C33: after filesys_create, filesys_open, filesys_remove, filesys_mkdir
\* or filesys_chdir has returned, every in-memory inode has as many opens
\* as there are handles on it.
C33_OpensMatchHandles ==
    (Alive /\ res.op \in {"create", "open", "remove", "mkdir", "chdir"})
        => \A i \in InodeIds : inodes[i].live => inodes[i].open_cnt = Handles(i)

(***************************************************************************)
(* Termination of growth and of release.                                   *)
(***************************************************************************)
\* C34: every inode_create and every inode_write_at returns: the loop of
\* inode_disk_grow ends for every length asked for.
C34_GrowTerminates ==
    res.op \in {"create", "write"} => ~res.hang

\* C35: the last inode_close of a removed inode returns: the loop of
\* free_inode ends for every size a file can have.
C35_FreeTerminates ==
    (res.op = "close" /\ res.removed) => ~res.hang

(***************************************************************************)
(* The map from file offsets to device sectors.                            *)
(***************************************************************************)
\* byte_to_sector of the start of every sector-sized range below the
\* length of di.
SectorMap(st, di) ==
    [n \in 0 .. (bytes_to_sectors(di.length) - 1) |->
        byte_to_sector(st, di, n * BLOCK_SECTOR_SIZE)]

\* The index blocks of di: blocks[10], blocks[11] and the level-2 blocks
\* the level-1 block lists (the full ones and a partly filled last one).
IndexBlocks(st, di) ==
    (IF di.indirect_used = 1 THEN {di.blocks[IndirectIdx]} ELSE {})
    \cup
    (IF di.double_used = 1
     THEN {di.blocks[DoubleIdx]}
          \cup {Cells(BlockRead(st, di.blocks[DoubleIdx]))[i] :
                  i \in {k \in CellIds :
                           \/ k < di.double_l1_usage
                           \/ k = di.double_l1_usage /\ di.double_l2_usage > 0}}
     ELSE {})

\* The ranges of the open file f lie on distinct device sectors, none of
\* them the inode sector or an index block.
MapsApart(f) ==
    \E m \in {SectorMap(Load, inodes[hf[f].inode].data)} :
        /\ \A a, b \in DOMAIN m : m[a] = m[b] => a = b
        /\ \A a \in DOMAIN m :
              /\ m[a] \in FsSectorIds
              /\ m[a] # hf[f].sector
              /\ m[a] \notin IndexBlocks(Load, inodes[hf[f].inode].data)

\* The ranges the open file f had before a step are where they were.
MapKept(f) ==
    \E m \in {SectorMap(Load, inodes[hf[f].inode].data)} :
        \A n \in DOMAIN m :
            SectorMap(Load, inodes[hf[f].inode].data)'[n] = m[n]

\* C36: after every step that leaves a file open, byte_to_sector maps the
\* sector-sized ranges below the file's length to distinct device sectors
\* that are neither the inode sector nor an index block, and every range
\* the file had before the step is mapped to the sector it was mapped to.
C36_SectorMapStable ==
    [][\A f \in FileIds :
          (Alive' /\ hf'[f].at = "open")
              => /\ MapsApart(f)'
                 /\ hf[f].at = "open" => MapKept(f)]_vars

(***************************************************************************)
(* The counters of struct inode_disk.                                      *)
(***************************************************************************)
\* The struct inode_disk of the file f: the in-memory copy of an open
\* file, the inode sector as seen through the cache otherwise.
DiskInodeOf(f) ==
    IF hf[f].at = "open" THEN inodes[hf[f].inode].data
    ELSE AsInode(SeenThroughCache(hf[f].sector))

CountersAgree(di) ==
    /\ di.sector_usage = di.direct_usage + di.indirect_block_usage
                            + PTRS * di.double_l1_usage + di.double_l2_usage
    /\ di.sector_usage = bytes_to_sectors(di.length)
    /\ di.direct_usage <= DIRECT_BLOCKS
    /\ di.indirect_block_usage <= PTRS
    /\ di.double_l2_usage < PTRS
    /\ di.indirect_used = 1 <=> di.indirect_block_usage > 0
    /\ di.double_used = 1 <=> (di.double_l1_usage > 0 \/ di.double_l2_usage > 0)

\* C37: after every inode_create and inode_write_at that returned, the
\* counters of the file's struct inode_disk add up to sector_usage, which
\* is the length in sectors rounded up; each counter is within its region
\* and the two used marks are set exactly when their regions hold data.
C37_CountersAgree ==
    \A f \in FileIds :
        (Alive /\ res.op \in {"create", "write"}
               /\ hf[f].at \in {"created", "open"}
               /\ hf[f].length <= MaxFileSectors * BLOCK_SECTOR_SIZE)
            => CountersAgree(DiskInodeOf(f))

\* A write has grown an open file into a partly filled second level-2
\* block.
C37_Witness ==
    \E f \in FileIds :
        /\ Alive /\ res.op = "write" /\ hf[f].at = "open"
        /\ DiskInodeOf(f).double_l1_usage > 0
        /\ DiskInodeOf(f).double_l2_usage > 0
        /\ CountersAgree(DiskInodeOf(f))

(***************************************************************************)
(* Directory entries and removed inodes.                                   *)
(***************************************************************************)
\* An in-memory inode of the sector is marked removed, or the sector has
\* gone back to the free map (the last close of a removed inode).
Removed(sector) ==
    \/ \E i \in InodeIds :
          inodes[i].live /\ inodes[i].sector = sector /\ inodes[i].removed
    \/ sector \notin free_map

\* C38: no in-use entry of a directory of the tree refers to an inode that
\* was marked removed.
C38_EntriesNotRemoved ==
    Alive => \A s \in DirSectors(Load) :
                \A k \in 1 .. Len(Listing(Load, s)) :
                    ~Removed(Listing(Load, s)[k].inode_sector)

(***************************************************************************)
(* A create of a name that exists.                                         *)
(***************************************************************************)
\* C39: a filesys_create or filesys_mkdir that fails because the directory
\* already has the name leaves the free map as it was before the call.
C39_FailedCreateReleases ==
    (Alive /\ res.op \in {"create", "mkdir"} /\ ~res.success
           /\ ~res.long /\ ~res.invalid /\ ~res.slash
           /\ res.named # NoSector)
        => res.fmap_kept
=========================================================================
